---- MODULE Spec2Model ----
(***************************************************************************)
(* Key management and encryption subsystem of the messaging application:   *)
(* lib/crypto.ts, lib/conversation-crypto.ts, hooks/useCrypto.ts and the   *)
(* API routes that call them.                                              *)
(*                                                                         *)
(* Byte strings (Uint8Array, Buffer) are sequences of 0..255; JavaScript   *)
(* strings are sequences of UTF-16 code units.  The libsodium primitives   *)
(* are modelled by their contract: a hash is collision free (its value is  *)
(* represented by its preimage), randombytes_buf never repeats a value,    *)
(* and an authenticated ciphertext opens only under the key and nonce it   *)
(* was made with (the table `oracle` holds every box made so far).         *)
(***************************************************************************)
EXTENDS Integers, Sequences, FiniteSets, TLC

VARIABLES
    rng,          \* 1 + number of values the client's randombytes_buf has handed out
    oracle,       \* the authenticated boxes made so far: {[k, n, m]}
    libReady,     \* libsodium's sodium.ready promise has resolved
    sodiumReady,  \* crypto.ts module-level flag
    hasPwhash,    \* the libsodium build exports crypto_pwhash
    keypairs,     \* identity keypairs returned by generateKeyPair
    sealed,       \* blobs returned by encryptPrivateKey: [privateKey, password, blob]
    vaultOp,      \* outcome of the last crypto.ts vault call
    symKeys,      \* keys returned by generateSymmetricKey
    stored,       \* message envelopes the hook produced: <<[message, key, envelope]>>
    msgOp,        \* outcome of the last useCrypto message call
    grants,       \* wrapped keys made: [symmetricKey, publicKey, wrapped]
    wrapOp,       \* outcome of the last decryptSymmetricKey call
    members,      \* conversation id -> emails of its participants (existing conversations)
    salts,        \* rows of table conversation_salts: [conversationId, salt]
    files,        \* the uploads directory: [id, part, bytes] and what was encrypted
    mediaMsgs,    \* rows of table messages created by uploads
    reqs,         \* the upload / download requests the server is handling
    conversationKeys, \* rows of table conversation_keys: [conversationId, userId, encryptedSymmetricKey]
    keyReply,     \* the last response of /api/conversations/[id]/keys
    chatMsgs,     \* rows of table messages created by POST /api/messages
    directory,    \* rows of table users that hold keys: [email, publicKey, encryptedPrivateKey]
    localStorage, \* the browser's localStorage: [key, owner, value]
    sessionStorage, \* the tab's sessionStorage: [key, owner, value]
    cryptoState,  \* the state of the useCrypto hook
    webCrypto,    \* window.crypto.subtle exists in a secure context
    storeOp,      \* outcome of the last secureStorage / hook key call
    warnings,     \* what console.warn has been called with
    csrfStore,    \* columns csrfToken, csrfTokenExpiry of table users
    guardOp,      \* outcome of the last request to a wrapped route
    rateStore,    \* rate-limit.ts store: key -> [count, resetTime]
    now,          \* Date.now(), in quarters of an hour
    passed,       \* per key: requests handed to the handler since the window's reset
    xhr,          \* outcome of the component's last uploadFile
    messageRows,         \* ids of the conversation's messageRows of table messages, by createdAt
    lastMessageId, \* the stream's lastMessageId; 0 is null
    polls,        \* the calls of pollForMessages in progress
    emitted,      \* ids of the messages the stream has enqueued, in order
    closed        \* the stream's closed flag

cryptoVars == <<rng, oracle, libReady, sodiumReady, hasPwhash>>
idVars == <<keypairs>>
vaultVars == <<sealed, vaultOp>>
msgVars == <<symKeys, stored, msgOp>>
wrapVars == <<grants, wrapOp>>
mediaVars == <<members, salts, files, mediaMsgs, reqs>>
chatVars == <<conversationKeys, keyReply, chatMsgs>>
browserVars == <<directory, localStorage, sessionStorage, cryptoState, webCrypto, storeOp,
                 warnings>>
guardVars == <<csrfStore, guardOp, rateStore, now, passed, xhr>>
streamVars == <<messageRows, lastMessageId, polls, emitted, closed>>
moreVars == <<guardVars, streamVars>>
oldVars == <<cryptoVars, idVars, vaultVars, msgVars, wrapVars, mediaVars, chatVars,
             browserVars>>
vars == <<oldVars, moreVars>>

\* What the operations of one part leave alone.
notVault == <<msgVars, wrapVars, mediaVars, chatVars, browserVars, moreVars>>
notMsg == <<idVars, vaultVars, wrapVars, mediaVars, chatVars, browserVars, moreVars>>
notWrap == <<idVars, vaultVars, msgVars, mediaVars, chatVars, browserVars, moreVars>>
notMedia == <<idVars, vaultVars, msgVars, wrapVars, chatVars, browserVars, moreVars>>
client == <<libReady, sodiumReady, hasPwhash>>

(***************************************************************************)
(* Bounds of the model.                                                    *)
(***************************************************************************)
MaxDraws == 7        \* the client's randombytes_buf / crypto_box_keypair calls per run
MaxKeyPairs == 2     \* generateKeyPair calls per run
MaxReq == 2          \* requests the server handles per run
MaxSymKeys == 2      \* generateSymmetricKey calls per run
MaxStored == 2       \* message envelopes stored per run
MaxChat == 2         \* text messages posted per run
MaxTicks == 5        \* quarters of an hour that pass per run
MaxMessages == 3     \* messages created while the stream is open
MaxPolls == 2        \* calls of pollForMessages in progress at once

(***************************************************************************)
(* libsodium constants.                                                    *)
(***************************************************************************)
SALTBYTES == 16
KEYBYTES == 32
NONCEBYTES == 24
CSRF_TOKEN_EXPIRY == 96      \* 24 hours, in quarters of an hour
MACBYTES == 16
PUBLICKEYBYTES == 32

Byte == 0..255

(***************************************************************************)
(* Results of calls that may throw.                                        *)
(***************************************************************************)
Ok(v) == [ok |-> TRUE, val |-> v, err |-> ""]
Throw(e) == [ok |-> FALSE, val |-> <<>>, err |-> e]

(***************************************************************************)
(* sodium.to_base64 / sodium.from_base64, variant URLSAFE_NO_PADDING.      *)
(* Characters are code units: A-Z a-z 0-9 - _                              *)
(***************************************************************************)
B64Char(i) ==
    IF i < 26 THEN 65 + i
    ELSE IF i < 52 THEN 97 + (i - 26)
    ELSE IF i < 62 THEN 48 + (i - 52)
    ELSE IF i = 62 THEN 45 ELSE 95

B64Index(c) ==
    IF c >= 65 /\ c <= 90 THEN c - 65
    ELSE IF c >= 97 /\ c <= 122 THEN c - 97 + 26
    ELSE IF c >= 48 /\ c <= 57 THEN c - 48 + 52
    ELSE IF c = 45 THEN 62
    ELSE IF c = 95 THEN 63
    ELSE -1

RECURSIVE to_base64(_)
to_base64(b) ==
    IF Len(b) = 0 THEN <<>>
    ELSE IF Len(b) = 1 THEN
        <<B64Char(b[1] \div 4), B64Char((b[1] % 4) * 16)>>
    ELSE IF Len(b) = 2 THEN
        LET n == b[1] * 256 + b[2]
        IN  <<B64Char(n \div 1024), B64Char((n \div 16) % 64), B64Char((n % 16) * 4)>>
    ELSE
        LET n == b[1] * 65536 + b[2] * 256 + b[3]
        IN  <<B64Char(n \div 262144), B64Char((n \div 4096) % 64),
              B64Char((n \div 64) % 64), B64Char(n % 64)>>
            \o to_base64(SubSeq(b, 4, Len(b)))

\* The bytes of a string of valid characters; trailing bits are dropped here
\* and checked by from_base64.
RECURSIVE B64Decode(_)
B64Decode(s) ==
    IF Len(s) <= 1 THEN <<>>
    ELSE IF Len(s) = 2 THEN
        <<(B64Index(s[1]) * 64 + B64Index(s[2])) \div 16>>
    ELSE IF Len(s) = 3 THEN
        LET n == B64Index(s[1]) * 4096 + B64Index(s[2]) * 64 + B64Index(s[3])
        IN  <<n \div 1024, (n \div 4) % 256>>
    ELSE
        LET n == B64Index(s[1]) * 262144 + B64Index(s[2]) * 4096
                 + B64Index(s[3]) * 64 + B64Index(s[4])
        IN  <<n \div 65536, (n \div 256) % 256, n % 256>>
            \o B64Decode(SubSeq(s, 5, Len(s)))

\* Throws on a character outside the alphabet (padding included), on an
\* impossible length and on non-zero trailing bits.
from_base64(s) ==
    IF \E i \in 1..Len(s) : B64Index(s[i]) = -1 THEN Throw("invalid input")
    ELSE IF Len(s) % 4 = 1 THEN Throw("incomplete input")
    ELSE IF Len(s) % 4 = 2 /\ B64Index(s[Len(s)]) % 16 # 0 THEN Throw("invalid input")
    ELSE IF Len(s) % 4 = 3 /\ B64Index(s[Len(s)]) % 4 # 0 THEN Throw("invalid input")
    ELSE Ok(B64Decode(s))

(***************************************************************************)
(* sodium.randombytes_buf(n): the r-th value drawn, never repeated.        *)
(***************************************************************************)
\* A generator that hands out the same bytes every time.
SameBytes(n, r) == [i \in 1..n |-> 0]

randombytes_buf(n, r) == [i \in 1..n |-> IF i = n THEN r ELSE 0]

(***************************************************************************)
(* Keys as crypto_secretbox / crypto_box see them.  A key read from bytes  *)
(* is those bytes; a hash output stands for its preimage.                  *)
(***************************************************************************)
RawKey(bytes) == [kind |-> "raw", len |-> Len(bytes), of |-> bytes]

\* sodium.crypto_generichash(hash_length, message)
crypto_generichash(hash_length, message) ==
    [kind |-> "generichash", len |-> hash_length, of |-> message]

\* sodium.crypto_pwhash(keyLength, password, salt, opsLimit, memLimit, alg)
crypto_pwhash(keyLength, password, salt) ==
    IF Len(salt) # SALTBYTES THEN Throw("invalid salt length")
    ELSE Ok([kind |-> "pwhash", len |-> keyLength,
             of |-> <<Len(password)>> \o password \o salt])

(***************************************************************************)
(* crypto_secretbox_easy / crypto_secretbox_open_easy.  A box is           *)
(* MAC(16) || body; it opens only as a box made under that key and nonce.  *)
(***************************************************************************)
\* MAC(16) || body of message m under nonce n.
Cipher(n, m) ==
    [j \in 1..MACBYTES |->
        IF j = 1 THEN (n[Len(n)] + Len(m)) % 256
        ELSE IF j <= Len(m) + 1 THEN (m[j - 1] + j) % 256
        ELSE 0]
    \o [j \in 1..Len(m) |-> (m[j] + n[Len(n)] + j) % 256]

\* The table after sealing m under nonce n and key k (unchanged on a throw).
BoxMade(orc, m, n, k) ==
    IF Len(n) # NONCEBYTES \/ k.len # KEYBYTES THEN orc
    ELSE orc \cup {[k |-> k, n |-> n, m |-> m]}

crypto_secretbox_easy(m, n, k) ==
    IF Len(n) # NONCEBYTES THEN Throw("invalid nonce length")
    ELSE IF k.len # KEYBYTES THEN Throw("invalid key length")
    ELSE Ok(Cipher(n, m))

\* An opening that undoes the cipher without verifying the MAC.
OpenWithoutMac(orc, c, n, k) ==
    IF Len(c) < MACBYTES THEN Throw("ciphertext is too short")
    ELSE IF Len(n) # NONCEBYTES THEN Throw("invalid nonce length")
    ELSE IF k.len # KEYBYTES THEN Throw("invalid key length")
    ELSE Ok([j \in 1..(Len(c) - MACBYTES) |->
                (c[MACBYTES + j] + 512 - n[Len(n)] - j) % 256])

crypto_secretbox_open_easy(orc, c, n, k) ==
    IF Len(c) < MACBYTES THEN Throw("ciphertext is too short")
    ELSE IF Len(n) # NONCEBYTES THEN Throw("invalid nonce length")
    ELSE IF k.len # KEYBYTES THEN Throw("invalid key length")
    ELSE IF \E e \in orc : e.k = k /\ e.n = n /\ Cipher(e.n, e.m) = c
         THEN Ok((CHOOSE e \in orc : e.k = k /\ e.n = n /\ Cipher(e.n, e.m) = c).m)
         ELSE Throw("wrong secret key for the given ciphertext")

(***************************************************************************)
(* crypto_box_keypair, crypto_box_easy, crypto_box_open_easy.  The shared  *)
(* key of (publicKey, privateKey) is the same as that of the other halves  *)
(* of the two keypairs; it stands for the pair of public keys.             *)
(***************************************************************************)
ScalarMultBase(privateKey) == [i \in 1..Len(privateKey) |-> 255 - privateKey[i]]

crypto_box_keypair(r) ==
    LET sk == randombytes_buf(KEYBYTES, r)
    IN  [publicKey |-> ScalarMultBase(sk), privateKey |-> sk]

RECURSIVE SeqLeq(_, _)
SeqLeq(a, b) ==
    IF Len(a) = 0 THEN TRUE
    ELSE IF Len(b) = 0 THEN FALSE
    ELSE IF a[1] # b[1] THEN a[1] < b[1]
    ELSE SeqLeq(Tail(a), Tail(b))

crypto_box_beforenm(publicKey, privateKey) ==
    LET mine == ScalarMultBase(privateKey)
    IN  [kind |-> "box", len |-> KEYBYTES,
         of |-> IF SeqLeq(publicKey, mine) THEN publicKey \o mine
                ELSE mine \o publicKey]

BoxMadeFor(orc, m, n, publicKey, privateKey) ==
    IF Len(publicKey) # PUBLICKEYBYTES \/ Len(privateKey) # KEYBYTES THEN orc
    ELSE BoxMade(orc, m, n, crypto_box_beforenm(publicKey, privateKey))

crypto_box_easy(m, n, publicKey, privateKey) ==
    IF Len(n) # NONCEBYTES THEN Throw("invalid nonce length")
    ELSE IF Len(publicKey) # PUBLICKEYBYTES THEN Throw("invalid publicKey length")
    ELSE IF Len(privateKey) # KEYBYTES THEN Throw("invalid privateKey length")
    ELSE crypto_secretbox_easy(m, n, crypto_box_beforenm(publicKey, privateKey))

crypto_box_open_easy(orc, c, n, publicKey, privateKey) ==
    IF Len(c) < MACBYTES THEN Throw("ciphertext is too short")
    ELSE IF Len(n) # NONCEBYTES THEN Throw("invalid nonce length")
    ELSE IF Len(publicKey) # PUBLICKEYBYTES THEN Throw("invalid publicKey length")
    ELSE IF Len(privateKey) # KEYBYTES THEN Throw("invalid privateKey length")
    ELSE LET r == crypto_secretbox_open_easy(orc, c, n,
                      crypto_box_beforenm(publicKey, privateKey))
         IN  IF r.ok THEN r ELSE Throw("incorrect key pair for the given ciphertext")

(***************************************************************************)
(* lib/crypto.ts: generateKeyPair, encryptPrivateKey, decryptPrivateKey.   *)
(* Every operator returns what the call returns or throws, with the state  *)
(* of the random generator (rng) and of the box table (orc) after it.      *)
(***************************************************************************)
After(res, r, orc) ==
    [ok |-> res.ok, val |-> res.val, err |-> res.err, rng |-> r, orc |-> orc]

generateKeyPair(r) ==
    LET keypair == crypto_box_keypair(r)
    IN  [publicKey |-> to_base64(keypair.publicKey),
         privateKey |-> to_base64(keypair.privateKey)]

\* A derivation that leaves the password out.
DeriveSaltKey(password, salt, pwh) ==
    IF pwh THEN crypto_pwhash(KEYBYTES, <<>>, salt)
    ELSE Ok(crypto_generichash(KEYBYTES, to_base64(salt)))

\* The key both vault functions derive from the password and the salt.
DerivePasswordKey(password, salt, pwh) ==
    IF pwh THEN crypto_pwhash(KEYBYTES, password, salt)
    ELSE Ok(crypto_generichash(KEYBYTES, password \o to_base64(salt)))

encryptPrivateKey(privateKey, password, r, orc, pwh) ==
    IF Len(privateKey) = 0 \/ Len(password) = 0
    THEN After(Throw("Private key and password are required"), r, orc)
    ELSE
    LET salt == randombytes_buf(SALTBYTES, r)
        key == DerivePasswordKey(password, salt, pwh)
        nonce == randombytes_buf(NONCEBYTES, r + 1)
        privateKeyBytes == from_base64(privateKey)
    IN  IF ~key.ok THEN After(key, r + 1, orc)
        ELSE IF ~privateKeyBytes.ok THEN After(privateKeyBytes, r + 2, orc)
        ELSE
        LET ciphertext == crypto_secretbox_easy(privateKeyBytes.val, nonce, key.val)
        IN  IF ~ciphertext.ok THEN After(ciphertext, r + 2, orc)
            ELSE After(Ok(to_base64(salt \o nonce \o ciphertext.val)), r + 2,
                       BoxMade(orc, privateKeyBytes.val, nonce, key.val))

\* A slice that starts one byte late.
SliceOffByOne(b, begin, end) ==
    SubSeq(b, (IF begin < Len(b) THEN begin ELSE Len(b)) + 2,
              IF end < Len(b) THEN end ELSE Len(b))

\* Uint8Array.prototype.slice(begin, end), 0-based, end exclusive, clamped.
Slice(b, begin, end) ==
    SubSeq(b, (IF begin < Len(b) THEN begin ELSE Len(b)) + 1,
              IF end < Len(b) THEN end ELSE Len(b))

decryptPrivateKey(encryptedPrivateKey, password, orc, ready, pwh) ==
    IF ~ready THEN Throw("TypeError")
    ELSE
    LET encrypted == from_base64(encryptedPrivateKey)
    IN  IF ~encrypted.ok THEN encrypted
        ELSE
        LET salt == Slice(encrypted.val, 0, SALTBYTES)
            nonce == Slice(encrypted.val, SALTBYTES, SALTBYTES + NONCEBYTES)
            ciphertext == Slice(encrypted.val, SALTBYTES + NONCEBYTES, Len(encrypted.val))
            key == DerivePasswordKey(password, salt, pwh)
        IN  IF ~key.ok THEN key
            ELSE
            LET decrypted == crypto_secretbox_open_easy(orc, ciphertext, nonce, key.val)
            IN  IF ~decrypted.ok THEN decrypted
                ELSE Ok(to_base64(decrypted.val))

(***************************************************************************)
(* Inputs of the vault operations.                                         *)
(***************************************************************************)
Passwords == {<<>>, <<112>>, <<112, 65>>}            \* "", "p", "pA"
NotBase64 == <<65, 61, 61>>                           \* "A==" (padded)
Garbage == <<65, 65, 65, 65>>                         \* "AAAA": three zero bytes
PrivateKeyInputs == {kp.privateKey : kp \in keypairs} \cup {<<>>, NotBase64}
BlobInputs == {s.blob : s \in sealed} \cup {Garbage}

NoOp == [op |-> "none", input |-> <<>>, password |-> <<>>, res |-> Ok(<<>>)]

InitCrypto ==
    /\ rng = 1
    /\ oracle = {}
    /\ libReady = FALSE
    /\ sodiumReady = FALSE
    /\ hasPwhash \in BOOLEAN

InitVault ==
    /\ keypairs = {}
    /\ sealed = {}
    /\ vaultOp = NoOp

\* libsodium finishes loading (sodium.ready resolves) at some point after
\* the module is imported, whether or not anything awaits it.
SodiumInitDone ==
    /\ ~libReady
    /\ libReady' = TRUE
    /\ UNCHANGED <<rng, oracle, sodiumReady, hasPwhash, idVars, vaultVars, notVault>>

\* crypto.ts ensureSodiumReady: awaits sodium.ready, then sets the flag.
EnsureSodiumReady ==
    /\ libReady' = TRUE
    /\ sodiumReady' = TRUE

GenerateKeyPair ==
    /\ Cardinality(keypairs) < MaxKeyPairs
    /\ rng < MaxDraws
    /\ EnsureSodiumReady
    /\ keypairs' = keypairs \cup {generateKeyPair(rng)}
    /\ rng' = rng + 1
    /\ UNCHANGED <<oracle, hasPwhash, sealed, vaultOp, notVault>>

EncryptPrivateKey ==
    \E privateKey \in PrivateKeyInputs, password \in Passwords :
        LET out == encryptPrivateKey(privateKey, password, rng, oracle, hasPwhash)
        IN  /\ rng + 1 < MaxDraws
            /\ EnsureSodiumReady
            /\ rng' = out.rng
            /\ oracle' = out.orc
            /\ sealed' = IF out.ok
                         THEN sealed \cup {[privateKey |-> privateKey,
                                            password |-> password, blob |-> out.val]}
                         ELSE sealed
            /\ vaultOp' = [op |-> "encryptPrivateKey", input |-> privateKey,
                           password |-> password,
                           res |-> [ok |-> out.ok, val |-> out.val, err |-> out.err]]
            /\ UNCHANGED <<hasPwhash, keypairs, notVault>>

DecryptPrivateKey ==
    \E blob \in BlobInputs, password \in Passwords :
        /\ vaultOp' = [op |-> "decryptPrivateKey", input |-> blob, password |-> password,
                       res |-> decryptPrivateKey(blob, password, oracle, libReady, hasPwhash)]
        /\ UNCHANGED <<cryptoVars, keypairs, sealed, notVault>>

(***************************************************************************)
(* sodium.from_string (TextEncoder.encode) and sodium.to_string            *)
(* (TextDecoder("utf-8", {fatal: true}).decode).                           *)
(***************************************************************************)
IsHighSurrogate(c) == c >= 55296 /\ c <= 56319
IsLowSurrogate(c) == c >= 56320 /\ c <= 57343
Continuation(x) == 128 + (x % 64)

RECURSIVE from_string(_)
from_string(str) ==
    IF Len(str) = 0 THEN <<>>
    ELSE
    LET c == str[1]
    IN  IF c < 128 THEN <<c>> \o from_string(Tail(str))
        ELSE IF c < 2048 THEN
            <<192 + (c \div 64), Continuation(c)>> \o from_string(Tail(str))
        ELSE IF IsHighSurrogate(c) /\ Len(str) >= 2 /\ IsLowSurrogate(str[2]) THEN
            LET cp == 65536 + (c - 55296) * 1024 + (str[2] - 56320)
            IN  <<240 + (cp \div 262144), Continuation(cp \div 4096),
                  Continuation(cp \div 64), Continuation(cp)>>
                \o from_string(Tail(Tail(str)))
        ELSE IF IsHighSurrogate(c) \/ IsLowSurrogate(c) THEN
            \* an unpaired surrogate is encoded as U+FFFD
            <<239, 191, 189>> \o from_string(Tail(str))
        ELSE
            <<224 + (c \div 4096), Continuation(c \div 64), Continuation(c)>>
            \o from_string(Tail(str))

IsContinuation(b, i) == i <= Len(b) /\ b[i] >= 128 /\ b[i] <= 191

RECURSIVE Utf8Decode(_)
Utf8Decode(b) ==
    IF Len(b) = 0 THEN Ok(<<>>)
    ELSE
    LET n == IF b[1] < 128 THEN 1
             ELSE IF b[1] >= 194 /\ b[1] <= 223 THEN 2
             ELSE IF b[1] >= 224 /\ b[1] <= 239 THEN 3
             ELSE IF b[1] >= 240 /\ b[1] <= 244 THEN 4
             ELSE 0
        wellFormed == /\ n > 0
                      /\ \A i \in 2..n : IsContinuation(b, i)
        cp == IF n = 1 THEN b[1]
              ELSE IF n = 2 THEN (b[1] - 192) * 64 + (b[2] - 128)
              ELSE IF n = 3 THEN (b[1] - 224) * 4096 + (b[2] - 128) * 64 + (b[3] - 128)
              ELSE (b[1] - 240) * 262144 + (b[2] - 128) * 4096
                   + (b[3] - 128) * 64 + (b[4] - 128)
        scalar == /\ (n = 3 => cp >= 2048 /\ ~(cp >= 55296 /\ cp <= 57343))
                  /\ (n = 4 => cp >= 65536 /\ cp <= 1114111)
    IN  IF ~wellFormed THEN Throw("The encoded data was not valid.")
        ELSE IF ~scalar THEN Throw("The encoded data was not valid.")
        ELSE
        LET rest == Utf8Decode(SubSeq(b, n + 1, Len(b)))
            units == IF cp < 65536 THEN <<cp>>
                     ELSE <<55296 + ((cp - 65536) \div 1024), 56320 + ((cp - 65536) % 1024)>>
        IN  IF ~rest.ok THEN rest ELSE Ok(units \o rest.val)

\* TextDecoder's ignoreBOM is false: a leading U+FEFF is not part of the output.
to_string(bytes) ==
    LET d == Utf8Decode(bytes)
    IN  IF d.ok /\ Len(d.val) > 0 /\ d.val[1] = 65279 THEN Ok(Tail(d.val)) ELSE d

(***************************************************************************)
(* lib/crypto.ts: generateSymmetricKey, encryptMessage, decryptMessage,    *)
(* combineCiphertextAndNonce, separateCiphertextAndNonce.  None of them    *)
(* awaits sodium.ready: before it has resolved they throw a TypeError.     *)
(***************************************************************************)
generateSymmetricKey(r, ready) ==
    IF ~ready THEN Throw("TypeError")
    ELSE Ok(to_base64(randombytes_buf(KEYBYTES, r)))

encryptMessage(message, symmetricKey, r, orc, ready) ==
    IF ~ready THEN After(Throw("TypeError"), r, orc)
    ELSE
    LET nonce == randombytes_buf(NONCEBYTES, r)
        key == from_base64(symmetricKey)
    IN  IF ~key.ok THEN After(key, r + 1, orc)
        ELSE
        LET ciphertext == crypto_secretbox_easy(from_string(message), nonce,
                                                RawKey(key.val))
        IN  IF ~ciphertext.ok THEN After(ciphertext, r + 1, orc)
            ELSE After(Ok([ciphertext |-> to_base64(ciphertext.val),
                           nonce |-> to_base64(nonce)]), r + 1,
                       BoxMade(orc, from_string(message), nonce, RawKey(key.val)))

decryptMessage(encryptedData, symmetricKey, orc, ready) ==
    IF ~ready THEN Throw("TypeError")
    ELSE
    LET ciphertext == from_base64(encryptedData.ciphertext)
        nonce == from_base64(encryptedData.nonce)
        key == from_base64(symmetricKey)
    IN  IF ~ciphertext.ok THEN ciphertext
        ELSE IF ~nonce.ok THEN nonce
        ELSE IF ~key.ok THEN key
        ELSE
        LET decrypted == crypto_secretbox_open_easy(orc, ciphertext.val, nonce.val,
                                                    RawKey(key.val))
        IN  IF ~decrypted.ok THEN decrypted ELSE to_string(decrypted.val)

combineCiphertextAndNonce(ciphertext, nonce) ==
    LET c == from_base64(ciphertext)
        n == from_base64(nonce)
    IN  IF ~c.ok THEN c
        ELSE IF ~n.ok THEN n
        ELSE Ok(to_base64(n.val \o c.val))

separateCiphertextAndNonce(combined) ==
    LET data == from_base64(combined)
    IN  IF ~data.ok THEN data
        ELSE Ok([ciphertext |-> to_base64(Slice(data.val, NONCEBYTES, Len(data.val))),
                 nonce |-> to_base64(Slice(data.val, 0, NONCEBYTES))])

(***************************************************************************)
(* hooks/useCrypto.ts: encryptMessage and decryptMessage.  Whatever the    *)
(* library throws is replaced by one generic error.                        *)
(***************************************************************************)
hookEncryptMessage(message, symmetricKey, r, orc, ready) ==
    LET encrypted == encryptMessage(message, symmetricKey, r, orc, ready)
        combined == combineCiphertextAndNonce(encrypted.val.ciphertext, encrypted.val.nonce)
    IN  IF ~encrypted.ok
        THEN After(Throw("Failed to encrypt message"), encrypted.rng, encrypted.orc)
        ELSE IF ~combined.ok
        THEN After(Throw("Failed to encrypt message"), encrypted.rng, encrypted.orc)
        ELSE After(combined, encrypted.rng, encrypted.orc)

hookDecryptMessage(encryptedMessage, symmetricKey, orc, ready) ==
    IF ~ready THEN Throw("Failed to decrypt message")
    ELSE
    LET separated == separateCiphertextAndNonce(encryptedMessage)
    IN  IF ~separated.ok THEN Throw("Failed to decrypt message")
        ELSE
        LET decrypted == decryptMessage(separated.val, symmetricKey, orc, ready)
        IN  IF ~decrypted.ok THEN Throw("Failed to decrypt message") ELSE decrypted

(***************************************************************************)
(* lib/crypto.ts: encryptSymmetricKey, decryptSymmetricKey.                *)
(***************************************************************************)
encryptSymmetricKey(symmetricKey, recipientPublicKey, r, orc, ready) ==
    IF ~ready THEN After(Throw("TypeError"), r, orc)
    ELSE
    LET ephemeralKeypair == crypto_box_keypair(r)
        nonce == randombytes_buf(NONCEBYTES, r + 1)
        key == from_base64(symmetricKey)
        publicKey == from_base64(recipientPublicKey)
    IN  IF ~key.ok THEN After(key, r + 2, orc)
        ELSE IF ~publicKey.ok THEN After(publicKey, r + 2, orc)
        ELSE
        LET ciphertext == crypto_box_easy(key.val, nonce, publicKey.val,
                                          ephemeralKeypair.privateKey)
        IN  IF ~ciphertext.ok THEN After(ciphertext, r + 2, orc)
            ELSE After(Ok(to_base64(ephemeralKeypair.publicKey \o nonce \o ciphertext.val)),
                       r + 2,
                       BoxMadeFor(orc, key.val, nonce, publicKey.val,
                                  ephemeralKeypair.privateKey))

\* An unwrapping that skips the ephemeral public key instead of reading it,
\* and opens the box against the recipient's own public key.
decryptSymmetricKeyOwnKey(encryptedSymmetricKey, privateKey, orc, ready) ==
    IF ~ready THEN Throw("TypeError")
    ELSE
    LET encrypted == from_base64(encryptedSymmetricKey)
        sk == from_base64(privateKey)
    IN  IF ~encrypted.ok THEN encrypted
        ELSE IF ~sk.ok THEN sk
        ELSE
        LET nonce == Slice(encrypted.val, PUBLICKEYBYTES, PUBLICKEYBYTES + NONCEBYTES)
            ciphertext == Slice(encrypted.val, PUBLICKEYBYTES + NONCEBYTES,
                                Len(encrypted.val))
            decrypted == crypto_box_open_easy(orc, ciphertext, nonce,
                                              ScalarMultBase(sk.val), sk.val)
        IN  IF ~decrypted.ok THEN decrypted ELSE Ok(to_base64(decrypted.val))

decryptSymmetricKey(encryptedSymmetricKey, privateKey, orc, ready) ==
    IF ~ready THEN Throw("TypeError")
    ELSE
    LET encrypted == from_base64(encryptedSymmetricKey)
    IN  IF ~encrypted.ok THEN encrypted
        ELSE
        LET ephemeralPublicKey == Slice(encrypted.val, 0, PUBLICKEYBYTES)
            nonce == Slice(encrypted.val, PUBLICKEYBYTES, PUBLICKEYBYTES + NONCEBYTES)
            ciphertext == Slice(encrypted.val, PUBLICKEYBYTES + NONCEBYTES,
                                Len(encrypted.val))
            sk == from_base64(privateKey)
        IN  IF ~sk.ok THEN sk
            ELSE
            LET decrypted == crypto_box_open_easy(orc, ciphertext, nonce,
                                                  ephemeralPublicKey, sk.val)
            IN  IF ~decrypted.ok THEN decrypted ELSE Ok(to_base64(decrypted.val))

(***************************************************************************)
(* Messages, keys and damaged envelopes the client operations are given.   *)
(***************************************************************************)
Messages ==
    { <<>>,                 \* ""
      <<104, 105>>,         \* "hi"
      <<233>>,              \* U+00E9
      <<55357, 56832>>,     \* U+1F600 as a surrogate pair
      <<65279, 104>>,       \* U+FEFF then "h"
      <<55296>> }           \* an unpaired surrogate: not a Unicode string

WellFormed(message) ==
    \A i \in 1..Len(message) :
        /\ IsHighSurrogate(message[i]) => i < Len(message) /\ IsLowSurrogate(message[i + 1])
        /\ IsLowSurrogate(message[i]) => i > 1 /\ IsHighSurrogate(message[i - 1])

SymKeyInputs == symKeys \cup {Garbage}

TamperDeltas == {1}

\* Every buffer that differs from b in exactly one byte (by one of the
\* deltas), and every proper prefix of b.
ByteChanges(b) ==
    {[b EXCEPT ![i] = (b[i] + d) % 256] : i \in 1..Len(b), d \in TamperDeltas}
Truncations(b) == {SubSeq(b, 1, n) : n \in 0..(Len(b) - 1)}
TamperedBytes(b) == ByteChanges(b) \cup Truncations(b)

\* A stored base64 envelope with one byte damaged or its tail cut off.
TamperedText(e) ==
    {to_base64(b) : b \in TamperedBytes(from_base64(e).val)}

NoCall == [op |-> "none", idx |-> 0, envelope |-> <<>>, key |-> <<>>, res |-> Ok(<<>>)]

InitMsg ==
    /\ symKeys = {}
    /\ stored = <<>>
    /\ msgOp = NoCall

InitWrap ==
    /\ grants = {}
    /\ wrapOp = [op |-> "none", wrapped |-> <<>>, privateKey |-> <<>>, res |-> Ok(<<>>)]

GenerateSymmetricKey ==
    LET out == generateSymmetricKey(rng, libReady)
    IN  /\ msgOp = NoCall
        /\ rng < MaxDraws
        /\ Cardinality(symKeys) < MaxSymKeys
        /\ symKeys' = IF out.ok THEN symKeys \cup {out.val} ELSE symKeys
        /\ rng' = IF out.ok THEN rng + 1 ELSE rng
        /\ UNCHANGED <<oracle, client, stored, msgOp, notMsg>>

\* The component takes the outcome of its last call to the hook; it makes
\* one call at a time.
TakeResult ==
    /\ msgOp # NoCall
    /\ msgOp' = NoCall
    /\ UNCHANGED <<cryptoVars, symKeys, stored, notMsg>>

HookEncryptMessage ==
    /\ msgOp = NoCall
    /\ rng < MaxDraws
    /\ Len(stored) < MaxStored
    /\ \E message \in Messages, key \in symKeys :
        LET out == hookEncryptMessage(message, key, rng, oracle, libReady)
        IN  /\ rng' = out.rng
            /\ oracle' = out.orc
            /\ stored' = IF out.ok
                         THEN Append(stored, [message |-> message, key |-> key,
                                              envelope |-> out.val])
                         ELSE stored
            /\ msgOp' = [op |-> "encryptMessage", idx |-> IF out.ok THEN Len(stored') ELSE 0,
                         envelope |-> out.val, key |-> key,
                         res |-> [ok |-> out.ok, val |-> out.val, err |-> out.err]]
            /\ UNCHANGED <<client, symKeys, notMsg>>

\* A stored envelope is fetched and decrypted, under any key.
HookDecryptMessage ==
    /\ msgOp = NoCall
    /\ \E i \in 1..Len(stored), key \in SymKeyInputs :
        /\ msgOp' = [op |-> "decryptMessage", idx |-> i,
                     envelope |-> stored[i].envelope, key |-> key,
                     res |-> hookDecryptMessage(stored[i].envelope, key, oracle, libReady)]
        /\ UNCHANGED <<cryptoVars, symKeys, stored, notMsg>>

\* The storage hands back a damaged envelope; it is decrypted under the key
\* it was encrypted with.
HookDecryptTampered ==
    /\ msgOp = NoCall
    /\ \E i \in 1..Len(stored) :
        \E envelope \in TamperedText(stored[i].envelope) :
            /\ msgOp' = [op |-> "decryptMessage", idx |-> i,
                         envelope |-> envelope, key |-> stored[i].key,
                         res |-> hookDecryptMessage(envelope, stored[i].key, oracle, libReady)]
            /\ UNCHANGED <<cryptoVars, symKeys, stored, notMsg>>

EncryptSymmetricKey ==
    \E symmetricKey \in SymKeyInputs, kp \in keypairs :
        LET out == encryptSymmetricKey(symmetricKey, kp.publicKey, rng, oracle, libReady)
        IN  /\ rng + 1 < MaxDraws
            /\ rng' = out.rng
            /\ oracle' = out.orc
            /\ grants' = IF out.ok
                         THEN grants \cup {[symmetricKey |-> symmetricKey,
                                            publicKey |-> kp.publicKey,
                                            wrapped |-> out.val]}
                         ELSE grants
            /\ UNCHANGED <<client, wrapOp, notWrap>>

DecryptSymmetricKey ==
    \E g \in grants, kp \in keypairs :
        /\ wrapOp' = [op |-> "decryptSymmetricKey", wrapped |-> g.wrapped,
                      privateKey |-> kp.privateKey,
                      res |-> decryptSymmetricKey(g.wrapped, kp.privateKey, oracle, libReady)]
        /\ UNCHANGED <<cryptoVars, grants, notWrap>>

(***************************************************************************)
(* lib/conversation-crypto.ts: deriveConversationKey, getConversationSalt, *)
(* encryptBuffer, decryptBuffer.                                           *)
(***************************************************************************)
RECURSIVE Insert(_, _)
Insert(x, sorted) ==
    IF Len(sorted) = 0 THEN <<x>>
    ELSE IF SeqLeq(x, sorted[1]) THEN <<x>> \o sorted
    ELSE <<sorted[1]>> \o Insert(x, Tail(sorted))

\* Array.prototype.sort() on strings: by UTF-16 code units.
RECURSIVE Sort(_)
Sort(list) == IF Len(list) = 0 THEN <<>> ELSE Insert(list[1], Sort(Tail(list)))

\* Array.prototype.join(":")
RECURSIVE Join(_)
Join(list) ==
    IF Len(list) = 0 THEN <<>>
    ELSE IF Len(list) = 1 THEN list[1]
    ELSE list[1] \o <<58>> \o Join(Tail(list))

\* The rows' emails left in the order the database returned them.
UnsortedEmails(rows) == rows

\* participantEmails: the rows' emails in the order the database returned
\* them, sorted.
ParticipantEmails(rows) == Sort(rows)

\* seed = `${conversationId}:${participantEmails.join(':')}`
Seed(conversationId, participantEmails) ==
    conversationId \o <<58>> \o Join(participantEmails)

\* A derivation that yields one key for every conversation.
DerivedKeyShared(conversationId, participantEmails, salt) ==
    crypto_generichash(KEYBYTES, <<>>)

DerivedKey(conversationId, participantEmails, salt) ==
    crypto_generichash(KEYBYTES, Seed(conversationId, participantEmails) \o to_base64(salt))

\* prisma.conversationSalt.findUnique({ where: { conversationId } })
SaltRows(rows, conversationId) == {row \in rows : row.conversationId = conversationId}

\* prisma.conversationSalt.create under @unique(conversationId): the rows
\* after the insert; a second row for the conversation is refused (P2002).
SaltInsert(rows, conversationId, salt) ==
    IF SaltRows(rows, conversationId) # {} THEN rows
    ELSE rows \cup {[conversationId |-> conversationId, salt |-> to_base64(salt)]}

\* A caller that keeps the salt it generated when its create was refused.
KeepMine(row, mine) == mine

\* What getConversationSalt returns after create failed with P2002 and the
\* row was read again.
SaltAfterConflict(row, mine) == from_base64(row.salt).val

encryptBuffer(buffer, key, r, orc) ==
    LET nonce == randombytes_buf(NONCEBYTES, r)
        ciphertext == crypto_secretbox_easy(buffer, nonce, key)
    IN  IF ~ciphertext.ok THEN After(ciphertext, r + 1, orc)
        ELSE After(Ok(nonce \o ciphertext.val), r + 1, BoxMade(orc, buffer, nonce, key))

\* A decryption that takes the nonce to be as long as a password salt.
decryptBufferShortNonce(encryptedBuffer, key, orc) ==
    LET nonce == Slice(encryptedBuffer, 0, SALTBYTES)
        ciphertext == Slice(encryptedBuffer, SALTBYTES, Len(encryptedBuffer))
    IN  crypto_secretbox_open_easy(orc, ciphertext, nonce, key)

decryptBuffer(encryptedBuffer, key, orc) ==
    LET nonce == Slice(encryptedBuffer, 0, NONCEBYTES)
        ciphertext == Slice(encryptedBuffer, NONCEBYTES, Len(encryptedBuffer))
    IN  crypto_secretbox_open_easy(orc, ciphertext, nonce, key)

(***************************************************************************)
(* The server: conversations and their participants, the salt table, the   *)
(* uploads directory, and the upload and download requests in progress.    *)
(* A request advances one awaited database or file operation at a time.    *)
(***************************************************************************)
Users == {<<97, 64, 120>>, <<98, 64, 120>>}                    \* a@x b@x
ConversationIds == {<<99, 49>>}                                \* "c1"
TwoConversationIds == ConversationIds \cup {<<99, 50>>}        \* "c1" "c2"
Buffers == {<<80, 78>>}                                        \* an uploaded file
Thumbnails == {<<>>, <<84>>}                                   \* none, or a thumbnail
Slots == 1..MaxReq

\* The orders in which the database may return the rows of a set.
Orders(S) ==
    {o \in [1..Cardinality(S) -> S] : \A i, j \in 1..Cardinality(S) : o[i] = o[j] => i = j}

NoTarget == [id |-> 0, part |-> "file"]

Idle ==
    [kind |-> "idle", pc |-> "idle", user |-> <<>>, conv |-> <<>>,
     buffer |-> <<>>, thumb |-> <<>>, phase |-> "file", id |-> 0,
     target |-> NoTarget, env |-> <<>>, tampered |-> FALSE,
     emails |-> <<>>, salt |-> <<>>, conflict |-> FALSE, derived |-> FALSE,
     status |-> 0, body |-> <<>>, err |-> ""]

InitMedia ==
    /\ members = <<>>
    /\ salts = {}
    /\ files = {}
    /\ mediaMsgs = {}
    /\ reqs = [i \in Slots |-> Idle]

\* A request slot is taken once, the slots in order.
Free(i) == reqs[i].pc = "idle" /\ \A j \in 1..(i - 1) : reqs[j].pc # "idle"

\* The server's randombytes_buf: what request i draws for the salt or the
\* nonce of the file or the thumbnail; no two draws are the same value.
Drawn(i, phase, purpose) ==
    MaxDraws + 4 * i + (IF phase = "thumb" THEN 2 ELSE 0)
                     + (IF purpose = "nonce" THEN 1 ELSE 0)

\* The request ends with a response; an upload has no handler for what
\* encryptMedia throws, a download answers every failure the same way.
Respond(r, status, body, err) ==
    [r EXCEPT !.pc = "done", !.status = status, !.body = body, !.err = err]

\* A response that tells the causes of a failed download apart.
FailedWithCause(r, err) ==
    Respond(r, IF err = "ENOENT" THEN 404 ELSE 500, <<>>, err)

Failed(r, err) ==
    IF r.kind = "download"
    THEN Respond(r, 404, <<>>, "File not found or decryption failed")
    ELSE Respond(r, 500, <<>>, err)

\* POST /api/conversations; the new row's id is one of ids.
CreateConversationIn(ids) ==
    \E id \in ids \ DOMAIN members, creator \in Users :
        \E participantEmails \in SUBSET (Users \ {creator}) :
            /\ members' = [c \in DOMAIN members \cup {id} |->
                             IF c = id THEN {creator} \cup participantEmails
                             ELSE members[c]]
            /\ UNCHANGED <<cryptoVars, notMedia, salts, files, mediaMsgs, reqs>>

CreateConversation == CreateConversationIn(ConversationIds)

\* POST /api/conversations/[id]/participants
AddParticipant ==
    \E conversationId \in DOMAIN members, session \in Users, email \in Users :
        /\ session \in members[conversationId]
        /\ email \notin members[conversationId]
        /\ members' = [members EXCEPT ![conversationId] = @ \cup {email}]
        /\ UNCHANGED <<cryptoVars, notMedia, salts, files, mediaMsgs, reqs>>

\* DELETE /api/conversations/[id]/participants/[userId]
RemoveParticipant ==
    \E conversationId \in DOMAIN members, session \in Users, userId \in Users :
        /\ session \in members[conversationId]
        /\ userId \in members[conversationId]
        /\ members' = [members EXCEPT ![conversationId] = @ \ {userId}]
        /\ UNCHANGED <<cryptoVars, notMedia, salts, files, mediaMsgs, reqs>>

\* POST /api/media/upload arrives (image or pdf, with or without thumbnail);
\* its conversationId is one of ids.
StartUploadIn(ids) ==
    \E i \in Slots, user \in Users, conv \in ids,
       buffer \in Buffers, thumb \in Thumbnails :
        /\ Free(i)
        /\ reqs' = [reqs EXCEPT ![i] =
                      [Idle EXCEPT !.kind = "upload", !.pc = "access", !.user = user,
                                   !.conv = conv, !.buffer = buffer, !.thumb = thumb]]
        /\ UNCHANGED <<cryptoVars, notMedia, members, salts, files, mediaMsgs>>

StartUpload == StartUploadIn(ConversationIds)

\* GET /api/media/download arrives; its conversationId is one of ids.
StartDownloadIn(ids) ==
    \E i \in Slots, user \in Users, conv \in ids,
       target \in {[id |-> f.id, part |-> f.part] : f \in files} \cup {NoTarget} :
        /\ Free(i)
        /\ reqs' = [reqs EXCEPT ![i] =
                      [Idle EXCEPT !.kind = "download", !.pc = "access", !.user = user,
                                   !.conv = conv, !.target = target]]
        /\ UNCHANGED <<cryptoVars, notMedia, members, salts, files, mediaMsgs>>

StartDownload == StartDownloadIn(ConversationIds)

\* Both handlers first check that the conversation exists and the caller is
\* one of its participants (validateConversationAccess for a download).
CheckAccess ==
    \E i \in Slots :
        LET r == reqs[i]
        IN  /\ r.pc = "access"
            /\ IF r.conv \notin DOMAIN members
               THEN reqs' = [reqs EXCEPT ![i] =
                               IF r.kind = "upload"
                               THEN Respond(r, 404, <<>>, "Conversation not found")
                               ELSE Respond(r, 403, <<>>, "Forbidden")]
               ELSE IF r.user \notin members[r.conv]
               THEN reqs' = [reqs EXCEPT ![i] = Respond(r, 403, <<>>, "Forbidden")]
               ELSE IF r.kind = "upload"
               THEN reqs' = [reqs EXCEPT ![i].pc = "derive", ![i].id = i]
               ELSE reqs' = [reqs EXCEPT ![i].pc = "read"]
            /\ UNCHANGED <<cryptoVars, notMedia, members, salts, files, mediaMsgs>>

FileAt(target) == {f \in files : f.id = target.id /\ f.part = target.part}

\* fs.readFile(filePath)
ReadFile ==
    \E i \in Slots :
        LET r == reqs[i]
        IN  /\ r.pc = "read"
            /\ IF FileAt(r.target) = {}
               THEN reqs' = [reqs EXCEPT ![i] = Failed(r, "ENOENT")]
               ELSE \E f \in FileAt(r.target) :
                        reqs' = [reqs EXCEPT ![i].env = f.bytes, ![i].pc = "derive"]
            /\ UNCHANGED <<cryptoVars, notMedia, members, salts, files, mediaMsgs>>

\* The file read back differs from the one written in one byte, or is cut short.
ReadTampered ==
    \E i \in Slots :
        LET r == reqs[i]
        IN  /\ r.pc = "read"
            /\ \E f \in FileAt(r.target) :
                   \E env \in TamperedBytes(f.bytes) :
                       reqs' = [reqs EXCEPT ![i].env = env, ![i].tampered = TRUE,
                                            ![i].pc = "derive"]
            /\ UNCHANGED <<cryptoVars, notMedia, members, salts, files, mediaMsgs>>

\* deriveConversationKey: prisma.conversation.findUnique with participants.
DeriveFind ==
    \E i \in Slots :
        LET r == reqs[i]
        IN  /\ r.pc = "derive"
            /\ IF r.conv \notin DOMAIN members
               THEN reqs' = [reqs EXCEPT ![i] = Failed(r, "Conversation not found")]
               ELSE \E rows \in Orders(members[r.conv]) :
                        reqs' = [reqs EXCEPT ![i].emails = ParticipantEmails(rows),
                                             ![i].pc = "saltFind"]
            /\ UNCHANGED <<cryptoVars, notMedia, members, salts, files, mediaMsgs>>

\* getConversationSalt returned salt: deriveConversationKey hashes and returns.
WithSalt(r, salt) ==
    [r EXCEPT !.salt = salt, !.derived = TRUE, !.pc = "crypt"]

\* getConversationSalt: the first findUnique.
SaltFind ==
    \E i \in Slots :
        LET r == reqs[i]
        IN  /\ r.pc = "saltFind"
            /\ IF SaltRows(salts, r.conv) = {}
               THEN reqs' = [reqs EXCEPT ![i].pc = "saltCreate"]
               ELSE \E existingSalt \in SaltRows(salts, r.conv) :
                        reqs' = [reqs EXCEPT ![i] =
                                   WithSalt(r, from_base64(existingSalt.salt).val)]
            /\ UNCHANGED <<cryptoVars, notMedia, members, salts, files, mediaMsgs>>

\* getConversationSalt: randombytes_buf(32), then create.
SaltCreate ==
    \E i \in Slots :
        LET r == reqs[i]
            salt == randombytes_buf(KEYBYTES, Drawn(i, r.phase, "salt"))
        IN  /\ r.pc = "saltCreate"
            /\ salts' = SaltInsert(salts, r.conv, salt)
            /\ IF [conversationId |-> r.conv, salt |-> to_base64(salt)] \in salts'
               THEN reqs' = [reqs EXCEPT ![i] = WithSalt(r, salt)]
               ELSE reqs' = [reqs EXCEPT ![i].conflict = TRUE, ![i].pc = "saltReread"]
            /\ UNCHANGED <<cryptoVars, notMedia, members, files, mediaMsgs>>

\* getConversationSalt: create failed with P2002, findUnique again.
SaltReread ==
    \E i \in Slots :
        LET r == reqs[i]
            mine == randombytes_buf(KEYBYTES, Drawn(i, r.phase, "salt"))
        IN  /\ r.pc = "saltReread"
            /\ IF SaltRows(salts, r.conv) = {}
               THEN reqs' = [reqs EXCEPT ![i] = Failed(r, "P2002")]
               ELSE \E existingSalt \in SaltRows(salts, r.conv) :
                        reqs' = [reqs EXCEPT ![i] =
                                   WithSalt(r, SaltAfterConflict(existingSalt, mine))]
            /\ UNCHANGED <<cryptoVars, notMedia, members, salts, files, mediaMsgs>>

Stored(r, part, bytes, plain, encrypted) ==
    [id |-> r.id, part |-> part, bytes |-> bytes, conv |-> r.conv, plain |-> plain,
     encrypted |-> encrypted, emails |-> r.emails, salt |-> r.salt,
     uploader |-> r.user]

\* uploadHandler: encryptMedia's encryptBuffer and fs.writeFile, for the file
\* and then for the thumbnail; without an uploaded thumbnail the file buffer
\* itself is written as the thumbnail.
EncryptAndWrite ==
    \E i \in Slots :
        LET r == reqs[i]
            plain == IF r.phase = "file" THEN r.buffer ELSE r.thumb
            key == DerivedKey(r.conv, r.emails, r.salt)
            out == encryptBuffer(plain, key, Drawn(i, r.phase, "nonce"), oracle)
            written == Stored(r, r.phase, out.val, plain, TRUE)
        IN  /\ r.pc = "crypt"
            /\ r.kind = "upload"
            /\ oracle' = out.orc
            /\ IF ~out.ok
               THEN /\ reqs' = [reqs EXCEPT ![i] = Failed(r, out.err)]
                    /\ UNCHANGED files
               ELSE IF r.phase = "file" /\ Len(r.thumb) > 0
               THEN /\ files' = files \cup {written}
                    /\ reqs' = [reqs EXCEPT ![i].phase = "thumb", ![i].pc = "derive"]
               ELSE IF r.phase = "file"
               THEN /\ files' = files \cup
                                {written, Stored(r, "thumb", r.buffer, r.buffer, FALSE)}
                    /\ reqs' = [reqs EXCEPT ![i].pc = "record"]
               ELSE /\ files' = files \cup {written}
                    /\ reqs' = [reqs EXCEPT ![i].pc = "record"]
            /\ UNCHANGED <<rng, client, notMedia, members, salts, mediaMsgs>>

\* uploadHandler: prisma.message.create, conversation.update, the response.
RecordMessage ==
    \E i \in Slots :
        LET r == reqs[i]
        IN  /\ r.pc = "record"
            /\ mediaMsgs' = mediaMsgs \cup
                   {[conversationId |-> r.conv, sender |-> r.user, media |-> r.id]}
            /\ reqs' = [reqs EXCEPT ![i] = Respond(r, 200, <<>>, "")]
            /\ UNCHANGED <<cryptoVars, notMedia, members, salts, files>>

\* A database call an upload awaits is rejected (the database is down, the
\* connection is lost): nothing in the handler catches it, the request
\* ends with status 500 and what it wrote before stays.
DatabaseSteps == {"derive", "saltFind", "saltCreate", "saltReread", "record"}

UploadDatabaseFails ==
    \E i \in Slots :
        LET r == reqs[i]
        IN  /\ r.kind = "upload"
            /\ r.pc \in DatabaseSteps
            /\ reqs' = [reqs EXCEPT ![i] = Failed(r, "PrismaClientKnownRequestError")]
            /\ UNCHANGED <<cryptoVars, notMedia, members, salts, files, mediaMsgs>>

\* GET: decryptMedia's decryptBuffer and the response.
DecryptAndServe ==
    \E i \in Slots :
        LET r == reqs[i]
            key == DerivedKey(r.conv, r.emails, r.salt)
            decryptedFile == decryptBuffer(r.env, key, oracle)
        IN  /\ r.pc = "crypt"
            /\ r.kind = "download"
            /\ reqs' = [reqs EXCEPT ![i] =
                          IF decryptedFile.ok THEN Respond(r, 200, decryptedFile.val, "")
                          ELSE Failed(r, decryptedFile.err)]
            /\ UNCHANGED <<cryptoVars, notMedia, members, salts, files, mediaMsgs>>

(***************************************************************************)
(* Protocol A on the server: the wrapped-key grants of                     *)
(* /api/conversations/[id]/keys and the text messages of /api/messages,    *)
(* with the client's handleSendMessage.                                    *)
(***************************************************************************)
WrappedInputs == {<<119, 49>>}                                 \* "w1"
SendTexts == {<<104, 105>>, <<32>>}                            \* "hi", " "
Whitespace == {9, 10, 11, 12, 13, 32, 160, 65279}

NoReply == [status |-> 0, error |-> "", row |-> <<>>]
JsonError(status, error) == [status |-> status, error |-> error, row |-> <<>>]
JsonRow(row) == [status |-> 200, error |-> "", row |-> <<row>>]

InitChat ==
    /\ conversationKeys = {}
    /\ keyReply = NoReply
    /\ chatMsgs = {}

\* prisma.conversationKey.findUnique({conversationId_userId})
KeyRows(rows, conversationId, userId) ==
    {k \in rows : k.conversationId = conversationId /\ k.userId = userId}

\* prisma.conversationKey.upsert: at most one row per (conversation, user).
KeyUpsert(rows, conversationId, userId, encryptedSymmetricKey) ==
    (rows \ KeyRows(rows, conversationId, userId))
        \cup {[conversationId |-> conversationId, userId |-> userId,
               encryptedSymmetricKey |-> encryptedSymmetricKey]}

\* POST /api/conversations/[id]/keys: stores the caller's own grant; a
\* conversation id that matches no conversation violates the foreign key.
PostConversationKey ==
    \E session \in Users, conversationId \in ConversationIds,
       encryptedSymmetricKey \in WrappedInputs :
        /\ IF conversationId \notin DOMAIN members
           THEN /\ keyReply' = JsonError(500, "Internal server error")
                /\ UNCHANGED conversationKeys
           ELSE /\ conversationKeys' = KeyUpsert(conversationKeys, conversationId,
                                                 session, encryptedSymmetricKey)
                /\ keyReply' = JsonRow([conversationId |-> conversationId,
                                        userId |-> session,
                                        encryptedSymmetricKey |-> encryptedSymmetricKey])
        /\ UNCHANGED <<cryptoVars, idVars, vaultVars, msgVars, wrapVars, mediaVars, moreVars,
                       chatMsgs, browserVars>>

\* GET /api/conversations/[id]/keys: the caller's own grant.
GetConversationKey ==
    \E session \in Users, conversationId \in ConversationIds :
        /\ IF KeyRows(conversationKeys, conversationId, session) = {}
           THEN keyReply' = JsonError(404, "Key not found")
           ELSE \E conversationKey \in KeyRows(conversationKeys, conversationId, session) :
                    keyReply' = JsonRow(conversationKey)
        /\ UNCHANGED <<cryptoVars, idVars, vaultVars, msgVars, wrapVars, mediaVars, moreVars,
                       conversationKeys, chatMsgs, browserVars>>

\* String.prototype.trim
RECURSIVE TrimStart(_)
TrimStart(s) ==
    IF Len(s) > 0 /\ s[1] \in Whitespace THEN TrimStart(Tail(s)) ELSE s

RECURSIVE TrimEnd(_)
TrimEnd(s) ==
    IF Len(s) > 0 /\ s[Len(s)] \in Whitespace
    THEN TrimEnd(SubSeq(s, 1, Len(s) - 1)) ELSE s

Trim(s) == TrimEnd(TrimStart(s))

\* POST /api/messages: the row created for a participant's request.
MessageRow(conversationId, senderId, type, ciphertext) ==
    [id |-> Cardinality(chatMsgs) + 1, conversationId |-> conversationId,
     senderId |-> senderId, type |-> type, ciphertext |-> ciphertext]

\* ChatInterface handleSendMessage with the request it sends to
\* POST /api/messages: the body's ciphertext field is newMessage itself.
HandleSendMessage ==
    \E currentUserEmail \in Users, conversationId \in ConversationIds,
       newMessage \in SendTexts :
        /\ Cardinality(chatMsgs) < MaxChat
        /\ Len(Trim(newMessage)) > 0
        /\ chatMsgs' = IF /\ conversationId \in DOMAIN members
                          /\ currentUserEmail \in members[conversationId]
                       THEN chatMsgs \cup
                            {MessageRow(conversationId, currentUserEmail, "text",
                                        newMessage)}
                       ELSE chatMsgs
        /\ UNCHANGED <<cryptoVars, idVars, vaultVars, msgVars, wrapVars, mediaVars, moreVars,
                       conversationKeys, keyReply, browserVars>>

(***************************************************************************)
(* The browser: lib/secure-storage.ts, the useCrypto hook's                *)
(* initializeCrypto and decryptSymmetricKey, the setup-keys page, and the  *)
(* server's /api/users/setup-keys.  A storage is a set of items; owner is  *)
(* the email a key name ends with, <<>> for a fixed name.  A null string   *)
(* of the users table and of the hook state is written <<>>.               *)
(***************************************************************************)
getItem(storage, key, owner) == {e \in storage : e.key = key /\ e.owner = owner}

removeItem(storage, key, owner) == storage \ getItem(storage, key, owner)

setItem(storage, key, owner, value) ==
    removeItem(storage, key, owner) \cup {[key |-> key, owner |-> owner, value |-> value]}

JsNull == [null |-> TRUE, val |-> <<>>]
JsString(v) == [null |-> FALSE, val |-> v]

\* A value that passes `if (x)`: neither null nor the empty string.
Truthy(x) == ~x.null /\ Len(x.val) > 0

\* sodium.crypto_pwhash as secure-storage.ts calls it: the standard build
\* has no such function.
StoragePwhash(password, salt, pwh) ==
    IF pwh THEN crypto_pwhash(KEYBYTES, password, salt)
    ELSE Throw("sodium.crypto_pwhash is not a function")

\* WebCryptoSecureStorage.storePrivateKey up to the blob it would store.
WebStorePrivateKey(key, password, r, orc, pwh) ==
    LET salt == randombytes_buf(32, r)
        derivedKey == StoragePwhash(password, salt, pwh)
    IN  IF ~derivedKey.ok THEN After(derivedKey, r + 1, orc)
        ELSE
        LET iv == randombytes_buf(12, r + 1)
            keyBytes == from_base64(key)
        IN  IF ~keyBytes.ok THEN After(keyBytes, r + 2, orc)
            ELSE
            LET encrypted == crypto_secretbox_easy(keyBytes.val, iv, derivedKey.val)
            IN  IF ~encrypted.ok THEN After(encrypted, r + 2, orc)
                ELSE After(Ok(to_base64(salt \o iv \o encrypted.val)), r + 2,
                           BoxMade(orc, keyBytes.val, iv, derivedKey.val))

\* FallbackSecureStorage.storePrivateKey up to the blob it would store; the
\* salt is also the nonce.
FallbackStorePrivateKey(key, password, r, orc, pwh) ==
    LET salt == randombytes_buf(32, r)
        derivedKey == StoragePwhash(password, salt, pwh)
        keyBytes == from_base64(key)
    IN  IF ~derivedKey.ok THEN After(derivedKey, r + 1, orc)
        ELSE IF ~keyBytes.ok THEN After(keyBytes, r + 1, orc)
        ELSE
        LET encrypted == crypto_secretbox_easy(keyBytes.val, salt, derivedKey.val)
        IN  IF ~encrypted.ok THEN After(encrypted, r + 1, orc)
            ELSE After(Ok(to_base64(salt \o encrypted.val)), r + 1,
                       BoxMade(orc, keyBytes.val, salt, derivedKey.val))

\* secureStorage.storePrivateKey of the implementation createSecureStorage chose.
storePrivateKey(web, key, password, r, orc, pwh) ==
    IF web THEN WebStorePrivateKey(key, password, r, orc, pwh)
    ELSE FallbackStorePrivateKey(key, password, r, orc, pwh)

\* The storages after storePrivateKey returned blob (unchanged on a throw).
SessionAfterStore(storage, web, out, r) ==
    IF web /\ out.ok
    THEN setItem(setItem(storage, "encrypted_private_key", <<>>, out.val),
                 "key_salt", <<>>, to_base64(randombytes_buf(32, r)))
    ELSE storage

LocalAfterStore(storage, web, out) ==
    IF ~web /\ out.ok
    THEN setItem(storage, "encrypted_private_key_fallback", <<>>, out.val)
    ELSE storage

\* retrievePrivateKey: what is left of the blob after the first saltLen
\* bytes and the nonce is opened; every throw is caught and null returned.
OpenStored(items, password, saltLen, nonceFrom, nonceTo, orc, pwh) ==
    IF items = {} THEN JsNull
    ELSE
    LET encryptedData == (CHOOSE e \in items : TRUE).value
        combined == from_base64(encryptedData)
    IN  IF Len(encryptedData) = 0 \/ ~combined.ok THEN JsNull
        ELSE
        LET salt == Slice(combined.val, 0, saltLen)
            nonce == Slice(combined.val, nonceFrom, nonceTo)
            encrypted == Slice(combined.val, nonceTo, Len(combined.val))
            derivedKey == StoragePwhash(password, salt, pwh)
        IN  IF ~derivedKey.ok THEN JsNull
            ELSE
            LET decrypted == crypto_secretbox_open_easy(orc, encrypted, nonce,
                                                        derivedKey.val)
            IN  IF ~decrypted.ok THEN JsNull
                ELSE JsString(to_base64(decrypted.val))

retrievePrivateKey(web, password, session, local, orc, pwh) ==
    IF web
    THEN OpenStored(getItem(session, "encrypted_private_key", <<>>), password,
                    32, 32, 44, orc, pwh)
    ELSE OpenStored(getItem(local, "encrypted_private_key_fallback", <<>>), password,
                    32, 0, 32, orc, pwh)

\* FallbackSecureStorage.storePrivateKey's console.warn, its first statement.
FallbackWarning == "SECURITY WARNING: Using fallback storage"

\* The hook state of useState, with the session of useSession.
NoCrypto(session) ==
    [session |-> session, isReady |-> FALSE, privateKey |-> <<>>,
     publicKey |-> <<>>, error |-> ""]

NoStoreOp == [op |-> "none", key |-> <<>>, password |-> <<>>, res |-> Ok(<<>>)]

InitBrowser ==
    /\ directory = [u \in Users |-> [publicKey |-> <<>>, encryptedPrivateKey |-> <<>>]]
    /\ localStorage = {}
    /\ sessionStorage = {}
    /\ cryptoState = NoCrypto(<<>>)
    /\ webCrypto = TRUE
    /\ storeOp = NoStoreOp
    /\ warnings = {}

\* Either implementation of the secure storage.
InitAnyBrowser ==
    /\ directory = [u \in Users |-> [publicKey |-> <<>>, encryptedPrivateKey |-> <<>>]]
    /\ localStorage = {}
    /\ sessionStorage = {}
    /\ cryptoState = NoCrypto(<<>>)
    /\ webCrypto \in BOOLEAN
    /\ storeOp = NoStoreOp
    /\ warnings = {}

\* POST /api/users/setup-keys: prisma.user.update of the session's user.
SetupKeysRoute(users, email, publicKey, encryptedPrivateKey) ==
    [users EXCEPT ![email] = [publicKey |-> publicKey,
                              encryptedPrivateKey |-> encryptedPrivateKey]]

\* The user signs in (next-auth); the page mounts with a fresh hook state.
SignIn ==
    \E email \in Users :
        /\ cryptoState.session = <<>>
        /\ cryptoState' = NoCrypto(email)
        /\ UNCHANGED <<cryptoVars, idVars, vaultVars, msgVars, wrapVars, mediaVars, moreVars,
                       chatVars, directory, localStorage, sessionStorage, webCrypto,
                       storeOp,
                       warnings>>

\* MessagingApp: signOut({ callbackUrl: '/' }).
SignOut ==
    /\ cryptoState.session # <<>>
    /\ cryptoState' = NoCrypto(<<>>)
    /\ UNCHANGED <<cryptoVars, idVars, vaultVars, msgVars, wrapVars, mediaVars, moreVars,
                   chatVars, directory, localStorage, sessionStorage, webCrypto,
                   storeOp,
                       warnings>>

\* The tab is closed: its sessionStorage and its page are gone.
CloseTab ==
    /\ cryptoState.session # <<>> \/ sessionStorage # {}
    /\ sessionStorage' = {}
    /\ cryptoState' = NoCrypto(<<>>)
    /\ UNCHANGED <<cryptoVars, idVars, vaultVars, msgVars, wrapVars, mediaVars, moreVars,
                   chatVars, directory, localStorage, webCrypto, storeOp,
                       warnings>>

\* setup-keys page and SetupKeysClient, setupKeys: a new keypair, sealed
\* under the email, uploaded, and then kept in localStorage.
SetupKeys ==
    LET email == cryptoState.session
        keypair == generateKeyPair(rng)
        sealedKey == encryptPrivateKey(keypair.privateKey, email, rng + 1, oracle,
                                       hasPwhash)
    IN  /\ email # <<>>
        /\ rng + 2 < MaxDraws
        /\ EnsureSodiumReady
        /\ keypairs' = keypairs \cup {keypair}
        /\ rng' = sealedKey.rng
        /\ oracle' = sealedKey.orc
        /\ IF sealedKey.ok
           THEN /\ directory' = SetupKeysRoute(directory, email, keypair.publicKey,
                                               sealedKey.val)
                /\ localStorage' =
                       setItem(setItem(localStorage, "privateKey", email,
                                       keypair.privateKey),
                               "publicKey", email, keypair.publicKey)
           ELSE UNCHANGED <<directory, localStorage>>
        /\ UNCHANGED <<hasPwhash, vaultVars, msgVars, wrapVars, mediaVars, moreVars, chatVars,
                       sessionStorage, cryptoState, webCrypto, storeOp,
                       warnings>>

\* useCrypto, initializeCrypto: the effect that runs when the session's
\* email is known.
InitializeCrypto ==
    LET email == cryptoState.session
        items == getItem(localStorage, "publicKey", email)
        storedPublicKey == IF items = {} THEN JsNull
                           ELSE JsString((CHOOSE e \in items : TRUE).value)
        storedPrivateKey == retrievePrivateKey(webCrypto, email, sessionStorage,
                                               localStorage, oracle, hasPwhash)
        keypair == generateKeyPair(rng)
        encryptedPrivateKey == encryptPrivateKey(keypair.privateKey, email, rng + 1,
                                                 oracle, hasPwhash)
        out == storePrivateKey(webCrypto, keypair.privateKey, email,
                               encryptedPrivateKey.rng, encryptedPrivateKey.orc,
                               hasPwhash)
        failed == [cryptoState EXCEPT !.error = "Failed to initialize encryption"]
    IN  /\ email # <<>>
        /\ ~cryptoState.isReady
        /\ libReady' = TRUE
        /\ IF Truthy(storedPrivateKey) /\ Truthy(storedPublicKey)
           THEN /\ cryptoState' = [session |-> email, isReady |-> TRUE,
                                   privateKey |-> storedPrivateKey.val,
                                   publicKey |-> storedPublicKey.val, error |-> ""]
                /\ UNCHANGED <<rng, oracle, sodiumReady, keypairs, directory,
                               localStorage, sessionStorage>>
           ELSE /\ rng + 3 < MaxDraws
                /\ sodiumReady' = TRUE
                /\ keypairs' = keypairs \cup {keypair}
                /\ IF ~encryptedPrivateKey.ok
                   THEN /\ rng' = encryptedPrivateKey.rng
                        /\ oracle' = encryptedPrivateKey.orc
                        /\ cryptoState' = failed
                        /\ UNCHANGED <<directory, localStorage, sessionStorage>>
                   ELSE /\ rng' = out.rng
                        /\ oracle' = out.orc
                        /\ sessionStorage' =
                               SessionAfterStore(sessionStorage, webCrypto, out,
                                                 encryptedPrivateKey.rng)
                        /\ IF ~out.ok
                           THEN /\ localStorage' =
                                       LocalAfterStore(localStorage, webCrypto, out)
                                /\ cryptoState' = failed
                                /\ UNCHANGED directory
                           ELSE /\ localStorage' =
                                       setItem(LocalAfterStore(localStorage, webCrypto,
                                                               out),
                                               "publicKey", email, keypair.publicKey)
                                /\ directory' =
                                       SetupKeysRoute(directory, email,
                                                      keypair.publicKey,
                                                      encryptedPrivateKey.val)
                                /\ cryptoState' =
                                       [session |-> email, isReady |-> TRUE,
                                        privateKey |-> keypair.privateKey,
                                        publicKey |-> keypair.publicKey, error |-> ""]
        /\ warnings' = IF /\ ~webCrypto
                          /\ ~(Truthy(storedPrivateKey) /\ Truthy(storedPublicKey))
                          /\ encryptedPrivateKey.ok
                       THEN warnings \cup {FallbackWarning}
                       ELSE warnings
        /\ UNCHANGED <<hasPwhash, vaultVars, msgVars, wrapVars, mediaVars, moreVars, chatVars,
                       webCrypto, storeOp>>

\* What the secureStorage operations are called with.
StoreKeyInputs == {kp.privateKey : kp \in keypairs} \cup {<<>>}

\* secureStorage.storePrivateKey(key, password)
StorePrivateKey ==
    \E key \in StoreKeyInputs, password \in Passwords :
        LET out == storePrivateKey(webCrypto, key, password, rng, oracle, hasPwhash)
        IN  /\ rng + 1 < MaxDraws
            /\ libReady' = TRUE
            /\ rng' = out.rng
            /\ oracle' = out.orc
            /\ sessionStorage' = SessionAfterStore(sessionStorage, webCrypto, out, rng)
            /\ localStorage' = LocalAfterStore(localStorage, webCrypto, out)
            /\ storeOp' = [op |-> "storePrivateKey", key |-> key,
                           password |-> password,
                           res |-> [ok |-> out.ok, val |-> out.val, err |-> out.err]]
            /\ warnings' = IF webCrypto THEN warnings
                           ELSE warnings \cup {FallbackWarning}
            /\ UNCHANGED <<sodiumReady, hasPwhash, idVars, vaultVars, msgVars,
                           wrapVars, mediaVars, moreVars, chatVars, directory, cryptoState,
                           webCrypto>>

\* secureStorage.retrievePrivateKey(password); res.val is the key, res.ok
\* is false for null.
RetrievePrivateKey ==
    \E password \in Passwords :
        LET key == retrievePrivateKey(webCrypto, password, sessionStorage,
                                      localStorage, oracle, hasPwhash)
        IN  /\ libReady' = TRUE
            /\ storeOp' = [op |-> "retrievePrivateKey", key |-> <<>>,
                           password |-> password,
                           res |-> IF key.null THEN Throw("null") ELSE Ok(key.val)]
            /\ UNCHANGED <<rng, oracle, sodiumReady, hasPwhash, idVars, vaultVars,
                           msgVars, wrapVars, mediaVars, moreVars, chatVars, directory,
                           localStorage, sessionStorage, cryptoState, webCrypto,
                       warnings>>

\* useCrypto decryptSymmetricKey(encryptedSymmetricKey)
hookDecryptSymmetricKey(encryptedSymmetricKey, state, orc, ready) ==
    IF Len(state.privateKey) = 0 THEN Throw("Private key not available")
    ELSE IF decryptSymmetricKey(encryptedSymmetricKey, state.privateKey, orc, ready).ok
    THEN decryptSymmetricKey(encryptedSymmetricKey, state.privateKey, orc, ready)
    ELSE Throw("Failed to decrypt symmetric key")

HookDecryptSymmetricKey ==
    \E encryptedSymmetricKey \in WrappedInputs \cup {g.wrapped : g \in grants} :
        /\ storeOp' = [op |-> "decryptSymmetricKey", key |-> encryptedSymmetricKey,
                       password |-> <<>>,
                       res |-> hookDecryptSymmetricKey(encryptedSymmetricKey,
                                                       cryptoState, oracle, libReady)]
        /\ UNCHANGED <<cryptoVars, idVars, vaultVars, msgVars, wrapVars, mediaVars, moreVars,
                       chatVars, directory, localStorage, sessionStorage, cryptoState,
                       webCrypto,
                       warnings>>

(***************************************************************************)
(* lib/csrf.ts and lib/rate-limit.ts, the wrappers of the upload route,    *)
(* and the component's uploadFile.  Time is counted in quarters of an      *)
(* hour.                                                                   *)
(***************************************************************************)
CsrfTokens == {<<97, 98>>, <<99, 100>>}                        \* "ab" "cd"
\* x-csrf-token as a client may send it: absent, a token, "AB", "abcd", "zz".
HeaderTokens == CsrfTokens \cup {<<>>, <<65, 66>>, <<97, 98, 99, 100>>, <<122, 122>>}
ClientIPs == {<<49>>}                                          \* "1"

HexDigit(c) ==
    IF c \in 48..57 THEN c - 48
    ELSE IF c \in 97..102 THEN c - 87
    ELSE IF c \in 65..70 THEN c - 55
    ELSE -1

\* Buffer.from(str, 'hex'): pairs of hex digits, up to the first pair that
\* is not one.
RECURSIVE HexDecode(_)
HexDecode(str) ==
    IF Len(str) < 2 \/ HexDigit(str[1]) < 0 \/ HexDigit(str[2]) < 0 THEN <<>>
    ELSE <<16 * HexDigit(str[1]) + HexDigit(str[2])>> \o HexDecode(SubSeq(str, 3, Len(str)))

\* validateCSRFToken: crypto.timingSafeEqual throws a RangeError when the
\* two buffers differ in length.
validateCSRFToken(token, storedToken) ==
    IF Len(token) = 0 \/ Len(storedToken) = 0 THEN "false"
    ELSE IF Len(HexDecode(token)) # Len(HexDecode(storedToken)) THEN "RangeError"
    ELSE IF HexDecode(token) = HexDecode(storedToken) THEN "true"
    ELSE "false"

\* getStoredCSRFToken; <<>> is null.
getStoredCSRFToken(store, userEmail, t) ==
    IF Len(store[userEmail].csrfToken) = 0 THEN <<>>
    ELSE IF t > store[userEmail].csrfTokenExpiry THEN <<>>
    ELSE store[userEmail].csrfToken

\* What a wrapper does with a request: answer it, or call its handler.
Answer(status, error) == [status |-> status, error |-> error, invoked |-> FALSE]
CallHandler == [status |-> 0, error |-> "", invoked |-> TRUE]

\* withCSRFProtection(handler)(request); an exception leaves the wrapper
\* unhandled and the framework answers 500.
withCSRFProtection(method, session, csrfToken, store, t) ==
    IF method \in {"GET", "OPTIONS"} THEN CallHandler
    ELSE IF Len(session) = 0 THEN Answer(401, "Unauthorized")
    ELSE
    LET storedToken == getStoredCSRFToken(store, session, t)
    IN  IF Len(storedToken) = 0 THEN Answer(403, "CSRF token not found")
        ELSE IF validateCSRFToken(csrfToken, storedToken) = "RangeError"
        THEN Answer(500, "RangeError")
        ELSE IF validateCSRFToken(csrfToken, storedToken) = "false"
        THEN Answer(403, "Invalid CSRF token")
        ELSE CallHandler

rateLimitConfigs ==
    [auth |-> [windowMs |-> 1, maxRequests |-> 5],
     upload |-> [windowMs |-> 4, maxRequests |-> 10]]

RateKeys == (DOMAIN rateLimitConfigs) \X ClientIPs
NoEntry == [present |-> FALSE, count |-> 0, resetTime |-> 0]

\* The entry rateLimit works on: created if absent, reset if its window is over.
RateEntry(config, store, key, t) ==
    IF ~store[key].present \/ t > store[key].resetTime
    THEN [present |-> TRUE, count |-> 0, resetTime |-> t + config.windowMs]
    ELSE store[key]

\* A limiter that lets one request too many through.
rateLimitOffByOne(config, store, key, t) ==
    LET entry == RateEntry(config, store, key, t)
    IN  IF entry.count > config.maxRequests
        THEN [store |-> [store EXCEPT ![key] = entry], blocked |-> TRUE]
        ELSE [store |-> [store EXCEPT ![key] = [entry EXCEPT !.count = @ + 1]],
              blocked |-> FALSE]

\* createRateLimit(config)(req): synchronous, so one step.
rateLimit(config, store, key, t) ==
    LET entry == RateEntry(config, store, key, t)
    IN  IF entry.count >= config.maxRequests
        THEN [store |-> [store EXCEPT ![key] = entry], blocked |-> TRUE]
        ELSE [store |-> [store EXCEPT ![key] = [entry EXCEPT !.count = @ + 1]],
              blocked |-> FALSE]

\* Requests of the key handed to the handler since its window was last reset.
PassedAfter(store, key, t, blocked) ==
    (IF ~store[key].present \/ t > store[key].resetTime THEN 0 ELSE passed[key])
        + (IF blocked THEN 0 ELSE 1)

NoGuardOp ==
    [route |-> "none", user |-> <<>>, ip |-> <<>>, token |-> <<>>, status |-> 0,
     error |-> "", invoked |-> FALSE]
NoXhr == [sent |-> FALSE, user |-> <<>>, conv |-> <<>>, file |-> <<>>, blob |-> <<>>,
          slot |-> 0, status |-> 0]

InitGuard ==
    /\ csrfStore = [u \in Users |-> [csrfToken |-> <<>>, csrfTokenExpiry |-> 0]]
    /\ guardOp = NoGuardOp
    /\ rateStore = [k \in RateKeys |-> NoEntry]
    /\ now = 0
    /\ passed = [k \in RateKeys |-> 0]
    /\ xhr = NoXhr

\* GET /api/csrf: refreshCSRFToken(session.user.email)
RefreshCSRFToken ==
    \E userEmail \in Users, token \in CsrfTokens :
        /\ csrfStore' = [csrfStore EXCEPT ![userEmail] =
                            [csrfToken |-> token,
                             csrfTokenExpiry |-> now + CSRF_TOKEN_EXPIRY]]
        /\ UNCHANGED <<oldVars, streamVars, guardOp, rateStore, now, passed, xhr>>

\* A quarter of an hour passes.
Tick ==
    /\ now < MaxTicks
    /\ now' = now + 1
    /\ UNCHANGED <<oldVars, streamVars, csrfStore, guardOp, rateStore, passed, xhr>>

\* More than the lifetime of a CSRF token passes.
DayPasses ==
    /\ now = 0
    /\ now' = now + CSRF_TOKEN_EXPIRY + 1
    /\ UNCHANGED <<oldVars, streamVars, csrfStore, guardOp, rateStore, passed, xhr>>

\* rate-limit.ts setInterval: entries whose window is over are deleted.
CleanUp ==
    /\ \E k \in RateKeys : rateStore[k].present /\ rateStore[k].resetTime <= now
    /\ rateStore' = [k \in RateKeys |->
                        IF rateStore[k].present /\ rateStore[k].resetTime <= now
                        THEN NoEntry ELSE rateStore[k]]
    /\ UNCHANGED <<oldVars, streamVars, csrfStore, guardOp, now, passed, xhr>>

\* A request to a handler wrapped as withRateLimit(config)(handler).
RateLimitedRequest ==
    \E name \in DOMAIN rateLimitConfigs, ip \in ClientIPs :
        LET key == <<name, ip>>
            out == rateLimit(rateLimitConfigs[name], rateStore, key, now)
        IN  /\ rateStore' = out.store
            /\ passed' = [passed EXCEPT ![key] =
                             PassedAfter(rateStore, key, now, out.blocked)]
            /\ guardOp' = [route |-> name, user |-> <<>>, ip |-> ip, token |-> <<>>,
                           status |-> IF out.blocked THEN 429 ELSE 200,
                           error |-> IF out.blocked THEN "Too many requests" ELSE "",
                           invoked |-> ~out.blocked]
            /\ UNCHANGED <<oldVars, streamVars, csrfStore, now, xhr>>

\* POST /api/media/upload through withCSRFProtection(withRateLimit(upload)):
\* slot i is taken only when the handler is called.
SendUpload(i, session, csrfToken, ip, conv, buffer, thumb) ==
    LET checked == withCSRFProtection("POST", session, csrfToken, csrfStore, now)
        key == <<"upload", ip>>
        limited == rateLimit(rateLimitConfigs.upload, rateStore, key, now)
        out == IF ~checked.invoked THEN checked
               ELSE IF limited.blocked THEN Answer(429, "Too many requests")
               ELSE CallHandler
    IN  /\ Free(i)
        /\ guardOp' = [route |-> "upload", user |-> session, ip |-> ip,
                       token |-> csrfToken, status |-> out.status,
                       error |-> out.error, invoked |-> out.invoked]
        /\ rateStore' = IF checked.invoked THEN limited.store ELSE rateStore
        /\ passed' = IF checked.invoked
                     THEN [passed EXCEPT ![key] =
                              PassedAfter(rateStore, key, now, limited.blocked)]
                     ELSE passed
        /\ reqs' = IF out.invoked
                   THEN [reqs EXCEPT ![i] =
                           [Idle EXCEPT !.kind = "upload", !.pc = "access",
                                        !.user = session, !.conv = conv,
                                        !.buffer = buffer, !.thumb = thumb]]
                   ELSE reqs

\* Any client posts an upload, with whatever x-csrf-token it likes.
GuardedUpload ==
    \E i \in Slots, session \in Users, csrfToken \in HeaderTokens, ip \in ClientIPs,
       conv \in ConversationIds, buffer \in Buffers, thumb \in Thumbnails :
        /\ SendUpload(i, session, csrfToken, ip, conv, buffer, thumb)
        /\ UNCHANGED <<cryptoVars, idVars, vaultVars, msgVars, wrapVars, chatVars,
                       browserVars, members, salts, files, mediaMsgs, csrfStore,
                       now, xhr, streamVars>>

\* ChatInterface: the placeholder key, 32 bytes of 1.
conversationKey == RawKey([i \in 1..KEYBYTES |-> 1])

\* ChatInterface encryptFileBuffer: nonce + ciphertext.
encryptFileBuffer(buffer, key, r) ==
    randombytes_buf(NONCEBYTES, r)
        \o crypto_secretbox_easy(buffer, randombytes_buf(NONCEBYTES, r), key).val

\* ChatInterface uploadFile(file) for an image or a pdf, in a conversation of
\* the user: the file and its thumbnail are encrypted and posted; the
\* XMLHttpRequest carries no x-csrf-token header.
UploadFile ==
    \E i \in Slots, currentUserEmail \in Users, ip \in ClientIPs,
       conversationId \in ConversationIds, file \in Buffers,
       thumb \in Thumbnails \ {<<>>} :
        LET uploadBlob == encryptFileBuffer(file, conversationKey, rng)
            thumbnailBlob == encryptFileBuffer(thumb, conversationKey, rng + 1)
        IN  /\ rng + 1 < MaxDraws
            /\ ~xhr.sent
            /\ conversationId \in DOMAIN members
            /\ currentUserEmail \in members[conversationId]
            /\ SendUpload(i, currentUserEmail, <<>>, ip, conversationId, uploadBlob,
                          thumbnailBlob)
            /\ libReady' = TRUE
            /\ rng' = rng + 2
            /\ oracle' = BoxMade(BoxMade(oracle, file, randombytes_buf(NONCEBYTES, rng),
                                         conversationKey),
                                 thumb, randombytes_buf(NONCEBYTES, rng + 1),
                                 conversationKey)
            /\ xhr' = [sent |-> TRUE, user |-> currentUserEmail,
                       conv |-> conversationId, file |-> file, blob |-> uploadBlob,
                       slot |-> IF guardOp'.invoked THEN i ELSE 0,
                       status |-> guardOp'.status]
            /\ UNCHANGED <<sodiumReady, hasPwhash, idVars, vaultVars, msgVars, wrapVars,
                           chatVars, browserVars, members, salts, files, mediaMsgs,
                           csrfStore, now, streamVars>>

(***************************************************************************)
(* GET /api/messages/stream: the polling of one open stream of one         *)
(* conversation.  Message ids are cuids, compared as strings by the        *)
(* database; here they are numbers, handed out in any order.               *)
(***************************************************************************)
MessageIds == 1..MaxMessages
PollIds == 1..MaxPolls

NoPoll == [pc |-> "idle", gt |-> 0, messages |-> <<>>]

InitStream ==
    /\ messageRows = <<>>
    /\ lastMessageId = 0
    /\ polls = [p \in PollIds |-> NoPoll]
    /\ emitted = <<>>
    /\ closed = FALSE

\* prisma.message.findMany({where: {conversationId, id: {gt}}, orderBy:
\* {createdAt: 'asc'}}); without lastMessageId there is no id condition.
findMany(table, gt) ==
    LET Selected(id) == gt = 0 \/ id > gt
    IN  SelectSeq(table, Selected)

\* A message of the conversation is created (by any route).
MessageCreated ==
    \E id \in MessageIds :
        /\ \A k \in 1..Len(messageRows) : messageRows[k] # id
        /\ messageRows' = Append(messageRows, id)
        /\ UNCHANGED <<oldVars, guardVars, lastMessageId, polls, emitted, closed>>

\* pollForMessages is called, by start() or by a tick of setInterval: the
\* where-clause is built from lastMessageId and the query is sent.
PollForMessages ==
    \E p \in PollIds :
        /\ polls[p].pc = "idle"
        /\ ~closed
        /\ polls' = [polls EXCEPT ![p] = [pc |-> "query", gt |-> lastMessageId,
                                          messages |-> <<>>]]
        /\ UNCHANGED <<oldVars, guardVars, messageRows, lastMessageId, emitted, closed>>

\* The database runs the query.
PollFindMany ==
    \E p \in PollIds :
        /\ polls[p].pc = "query"
        /\ polls' = [polls EXCEPT ![p] = [pc |-> "await", gt |-> @.gt,
                                          messages |-> findMany(messageRows, polls[p].gt)]]
        /\ UNCHANGED <<oldVars, guardVars, messageRows, lastMessageId, emitted, closed>>

\* pollForMessages resumes after its await: lastMessageId becomes the id of
\* the last row and every row is enqueued unless the stream is closed.
PollResume ==
    \E p \in PollIds :
        LET messages == polls[p].messages
        IN  /\ polls[p].pc = "await"
            /\ polls' = [polls EXCEPT ![p] = NoPoll]
            /\ lastMessageId' = IF Len(messages) > 0 THEN messages[Len(messages)]
                                 ELSE lastMessageId
            /\ emitted' = IF closed THEN emitted ELSE emitted \o messages
            /\ UNCHANGED <<oldVars, guardVars, messageRows, closed>>

\* cancel(): the client went away.
StreamCancel ==
    /\ ~closed
    /\ closed' = TRUE
    /\ UNCHANGED <<oldVars, guardVars, messageRows, lastMessageId, polls, emitted>>

(***************************************************************************)
(* Specifications.                                                         *)
(***************************************************************************)
Init ==
    /\ InitCrypto /\ InitVault /\ InitMsg /\ InitWrap /\ InitMedia
    /\ InitChat /\ InitBrowser /\ InitGuard /\ InitStream

\* The private-key vault of lib/crypto.ts.
NextVault ==
    \/ SodiumInitDone
    \/ GenerateKeyPair
    \/ EncryptPrivateKey
    \/ DecryptPrivateKey

SpecVault == Init /\ [][NextVault]_vars

\* Key wrapping (Protocol A) of lib/crypto.ts.
NextWrap ==
    \/ SodiumInitDone
    \/ GenerateKeyPair
    \/ GenerateSymmetricKey
    \/ EncryptSymmetricKey
    \/ DecryptSymmetricKey

SpecWrap == Init /\ [][NextWrap]_vars

\* The server's media path (Protocol B) over an honest uploads directory.
NextMedia ==
    \/ CreateConversation
    \/ AddParticipant
    \/ RemoveParticipant
    \/ StartUpload
    \/ StartDownload
    \/ CheckAccess
    \/ ReadFile
    \/ DeriveFind
    \/ SaltFind
    \/ SaltCreate
    \/ SaltReread
    \/ EncryptAndWrite
    \/ RecordMessage
    \/ DecryptAndServe

\* Only the vault calls crypto_pwhash: elsewhere one build stands for both.
InitOneBuild == Init /\ hasPwhash

SpecMedia == InitOneBuild /\ [][NextMedia]_vars

\* The stored envelopes of both kinds: the client's message envelopes and
\* the server's media files, either of which the storage may hand back
\* damaged.  The client and the server share no state, so a behaviour
\* follows one of them; the server takes its requests one at a time.
ClientUntouched == ~libReady /\ symKeys = {} /\ stored = <<>>
ServerUntouched == members = <<>> /\ \A i \in Slots : reqs[i].pc = "idle"
Quiet == \A i \in Slots : reqs[i].pc \in {"idle", "done"}

NextEnvelope ==
    \/ ServerUntouched /\ SodiumInitDone
    \/ ServerUntouched /\ GenerateSymmetricKey
    \/ ServerUntouched /\ HookEncryptMessage
    \/ ServerUntouched /\ HookDecryptMessage
    \/ ServerUntouched /\ HookDecryptTampered
    \/ ServerUntouched /\ TakeResult
    \/ ClientUntouched /\ CreateConversation
    \/ ClientUntouched /\ Quiet /\ StartUpload
    \/ ClientUntouched /\ Quiet /\ StartDownload
    \/ CheckAccess
    \/ ReadFile
    \/ ReadTampered
    \/ DeriveFind
    \/ SaltFind
    \/ SaltCreate
    \/ EncryptAndWrite
    \/ RecordMessage
    \/ DecryptAndServe

SpecEnvelope == InitOneBuild /\ [][NextEnvelope]_vars

\* Uploads, one at a time, over a database whose calls may fail.
NextUpload ==
    \/ CreateConversation
    \/ Quiet /\ StartUpload
    \/ CheckAccess
    \/ DeriveFind
    \/ SaltFind
    \/ SaltCreate
    \/ EncryptAndWrite
    \/ RecordMessage
    \/ UploadDatabaseFails

SpecUpload == InitOneBuild /\ [][NextUpload]_vars

\* Protocol A as the application runs it: conversations, the grants of the
\* keys route and the messages route, next to a client that holds a key and
\* one encrypted envelope.
NextChat ==
    \/ SodiumInitDone
    \/ symKeys = {} /\ GenerateSymmetricKey
    \/ stored = <<>> /\ HookEncryptMessage
    \/ TakeResult
    \/ CreateConversation
    \/ AddParticipant
    \/ RemoveParticipant
    \/ PostConversationKey
    \/ GetConversationKey
    \/ HandleSendMessage

SpecChat == InitOneBuild /\ [][NextChat]_vars

\* The browser of one user after another, with either implementation of
\* the secure storage and either libsodium build.
NextSession ==
    \/ SignIn
    \/ SignOut
    \/ CloseTab
    \/ SetupKeys
    \/ InitializeCrypto
    \/ StorePrivateKey
    \/ RetrievePrivateKey
    \/ HookDecryptSymmetricKey

InitSession ==
    /\ InitCrypto /\ InitVault /\ InitMsg /\ InitWrap /\ InitMedia
    /\ InitChat /\ InitAnyBrowser /\ InitGuard /\ InitStream

SpecSession == InitSession /\ [][NextSession]_vars

\* The routes as any client may call them, the upload behind its wrappers
\* and the others as they are exported; one upload request per run.
NextCsrf ==
    \/ RefreshCSRFToken
    \/ DayPasses
    \/ CreateConversation
    \/ chatMsgs = {} /\ HandleSendMessage
    \/ guardOp = NoGuardOp /\ GuardedUpload
    \/ guardOp = NoGuardOp /\ UploadFile
    \/ CheckAccess
    \/ DeriveFind
    \/ SaltFind
    \/ SaltCreate
    \/ EncryptAndWrite
    \/ RecordMessage

SpecCsrf == InitOneBuild /\ [][NextCsrf]_vars

\* A handler behind withRateLimit, for each configuration and client.
\* Uploads and downloads, one at a time, over two conversations whose
\* participants may be removed at any moment.
NextAccess ==
    \/ CreateConversationIn(TwoConversationIds)
    \/ RemoveParticipant
    \/ Quiet /\ StartUploadIn(TwoConversationIds)
    \/ Quiet /\ StartDownloadIn(TwoConversationIds)
    \/ CheckAccess
    \/ ReadFile
    \/ DeriveFind
    \/ SaltFind
    \/ SaltCreate
    \/ EncryptAndWrite
    \/ RecordMessage
    \/ DecryptAndServe

SpecAccess == InitOneBuild /\ [][NextAccess]_vars

\* One open message stream while messages are being created.
NextStream ==
    \/ MessageCreated
    \/ PollForMessages
    \/ PollFindMany
    \/ PollResume
    \/ StreamCancel

SpecStream == InitOneBuild /\ [][NextStream]_vars

NextRate ==
    \/ RateLimitedRequest
    \/ Tick
    \/ CleanUp

SpecRate == InitOneBuild /\ [][NextRate]_vars

(***************************************************************************)
(* Properties of the private-key vault (SpecVault).                        *)
(***************************************************************************)
GeneratedKeys == {kp.privateKey : kp \in keypairs}

\* C1: private-key round trip.  Sealing a generated private key under a
\* non-empty password succeeds, and opening the sealed blob with the same
\* password returns exactly that private key.
C1_PrivateKeyRoundTrip ==
    /\ (vaultOp.op = "encryptPrivateKey" /\ vaultOp.input \in GeneratedKeys
            /\ Len(vaultOp.password) > 0)
       => vaultOp.res.ok
    /\ \A s \in sealed :
          (vaultOp.op = "decryptPrivateKey" /\ vaultOp.input = s.blob
               /\ vaultOp.password = s.password)
          => vaultOp.res = Ok(s.privateKey)

\* A sealed private key has been opened with its password.
C1_Witness ==
    \E s \in sealed :
        /\ vaultOp.op = "decryptPrivateKey"
        /\ vaultOp.input = s.blob
        /\ vaultOp.password = s.password
        /\ s.privateKey \in GeneratedKeys
        /\ vaultOp.res.ok
        /\ vaultOp.res.val = s.privateKey

\* C2: wrong-password rejection.  Opening a sealed blob with any password
\* other than the one it was sealed under throws, and the caller gets no
\* bytes at all.
C2_WrongPasswordRejected ==
    \A s \in sealed :
        (vaultOp.op = "decryptPrivateKey" /\ vaultOp.input = s.blob
             /\ vaultOp.password # s.password)
        => /\ ~vaultOp.res.ok
           /\ vaultOp.res.val = <<>>
           /\ vaultOp.res.err = "wrong secret key for the given ciphertext"

\* A sealed private key has been refused to a non-empty wrong password.
C2_Witness ==
    \E s \in sealed :
        /\ vaultOp.op = "decryptPrivateKey"
        /\ vaultOp.input = s.blob
        /\ vaultOp.password # s.password
        /\ Len(vaultOp.password) > 0
        /\ ~vaultOp.res.ok

\* C19: no silent downgrade, as claimed: in a build without the
\* memory-hard password hash (crypto_pwhash), sealing and opening a private
\* key fail; neither proceeds with another key derivation.
C19_NoSilentDowngrade ==
    (~hasPwhash /\ vaultOp.op \in {"encryptPrivateKey", "decryptPrivateKey"})
        => ~vaultOp.res.ok

(***************************************************************************)
(* Properties of key wrapping, Protocol A (SpecWrap).                      *)
(***************************************************************************)
\* C10: key-wrap round trip.  A shared key wrapped for a participant's
\* public key is unwrapped by that participant's private key to exactly the
\* shared key.
C10_KeyWrapRoundTrip ==
    \A g \in grants, kp \in keypairs :
        (wrapOp.op = "decryptSymmetricKey" /\ wrapOp.wrapped = g.wrapped
             /\ wrapOp.privateKey = kp.privateKey /\ kp.publicKey = g.publicKey)
        => wrapOp.res = Ok(g.symmetricKey)

\* With two participants registered, one of them has unwrapped a key that
\* was wrapped for them.
C10_Witness ==
    \E g \in grants, kp \in keypairs :
        /\ Cardinality(keypairs) > 1
        /\ wrapOp.op = "decryptSymmetricKey"
        /\ wrapOp.wrapped = g.wrapped
        /\ wrapOp.privateKey = kp.privateKey
        /\ kp.publicKey = g.publicKey
        /\ g.symmetricKey \in symKeys
        /\ wrapOp.res.ok
        /\ wrapOp.res.val = g.symmetricKey

\* C28: call-order independence, as claimed: in every state, also the one
\* right after module load, generateSymmetricKey, encryptSymmetricKey and
\* decryptSymmetricKey called now produce what they produce once the
\* library is ready; nothing depends on an earlier generateKeyPair.
C28_CallOrderIndependent ==
    /\ generateSymmetricKey(rng, libReady) = generateSymmetricKey(rng, TRUE)
    /\ \A symmetricKey \in symKeys, kp \in keypairs :
          encryptSymmetricKey(symmetricKey, kp.publicKey, rng, oracle, libReady)
              = encryptSymmetricKey(symmetricKey, kp.publicKey, rng, oracle, TRUE)
    /\ \A g \in grants, kp \in keypairs :
          decryptSymmetricKey(g.wrapped, kp.privateKey, oracle, libReady)
              = decryptSymmetricKey(g.wrapped, kp.privateKey, oracle, TRUE)

(***************************************************************************)
(* Properties of the stored envelopes (SpecEnvelope).                      *)
(***************************************************************************)
\* The stored message a call of the hook's decryptMessage was given, if it
\* was given exactly the stored envelope, or a damaged one.
Intact(i) == msgOp.envelope = stored[i].envelope
DecryptedAt(i) == msgOp.op = "decryptMessage" /\ msgOp.idx = i

C8_MessageRoundTrip ==
    \A i \in 1..Len(stored) :
        (DecryptedAt(i) /\ Intact(i) /\ msgOp.key = stored[i].key
             /\ WellFormed(stored[i].message))
        => msgOp.res = Ok(stored[i].message)

\* C9: nonce uniqueness.  No two stored message envelopes are identical and
\* no two encrypted media files are, whatever their plaintexts and keys;
\* their nonces differ.
Nonce24(bytes) == Slice(bytes, 0, NONCEBYTES)

C9_NonceUniqueness ==
    /\ \A i, j \in 1..Len(stored) :
          i # j => /\ stored[i].envelope # stored[j].envelope
                   /\ Nonce24(from_base64(stored[i].envelope).val)
                        # Nonce24(from_base64(stored[j].envelope).val)
    /\ \A f, g \in files :
          (f.encrypted /\ g.encrypted /\ <<f.id, f.part>> # <<g.id, g.part>>)
          => f.bytes # g.bytes /\ Nonce24(f.bytes) # Nonce24(g.bytes)

\* The same buffer has been encrypted twice under the same conversation key.
C9_Witness ==
    \E f, g \in files :
        /\ f.encrypted /\ g.encrypted
        /\ f.id # g.id
        /\ f.plain = g.plain
        /\ f.conv = g.conv /\ f.emails = g.emails /\ f.salt = g.salt
        /\ f.bytes # g.bytes

\* The download ended without the file, past the route's access check.
DownloadFailed(r) ==
    /\ r.kind = "download"
    /\ r.pc = "done"
    /\ r.status # 200
    /\ r.err # "Forbidden"

Range(list) == {list[n] : n \in 1..Len(list)}

\* The key a request's deriveConversationKey call returned.
KeyOf(r) == DerivedKey(r.conv, r.emails, r.salt)

\* Every salt a request may generate.
SaltDraws ==
    {randombytes_buf(KEYBYTES, Drawn(i, phase, "salt")) :
        i \in Slots, phase \in {"file", "thumb"}}

\* deriveConversationKey has just returned to the request.
Returned(r) == r.derived /\ r.pc = "crypt"

\* C4: idempotent salt creation.  However the find, create and re-read
\* steps of concurrent getConversationSalt calls interleave, every call
\* returns the salt of the one row the conversation has, no call fails on
\* the uniqueness conflict, and no conversation has two rows.
C4_IdempotentSalt ==
    /\ \A c \in ConversationIds : Cardinality(SaltRows(salts, c)) <= 1
    /\ \A i \in Slots :
          /\ reqs[i].err # "P2002"
          /\ reqs[i].derived => SaltRows(salts, reqs[i].conv) # {}
          /\ Returned(reqs[i])
             => SaltRows(salts, reqs[i].conv)
                  = {[conversationId |-> reqs[i].conv, salt |-> to_base64(reqs[i].salt)]}
    /\ \A i, j \in Slots :
          (reqs[i].derived /\ reqs[j].derived /\ reqs[i].conv = reqs[j].conv)
          => reqs[i].salt = reqs[j].salt

\* Two calls raced: one created the row, the other was refused by the
\* unique index, read the row again and returned the same salt.
C4_Witness ==
    \E i, j \in Slots :
        /\ i # j
        /\ reqs[i].conflict /\ reqs[i].derived
        /\ ~reqs[j].conflict /\ reqs[j].derived
        /\ reqs[i].conv = reqs[j].conv
        /\ reqs[i].salt = reqs[j].salt
        /\ reqs[j].salt \in SaltDraws

Served(r, f) ==
    /\ r.kind = "download" /\ r.pc = "done" /\ r.derived
    /\ f \in FileAt(r.target)
    /\ f.encrypted
    /\ r.env = f.bytes

\* C6: the conversation key is created once, as claimed: every download of
\* a media file that was stored encrypted returns the bytes that were
\* uploaded, whatever uploads, downloads, participant additions and
\* removals took place in between.
C6_EarlierMediaStillDecrypts ==
    \A i \in Slots, f \in files :
        Served(reqs[i], f) => reqs[i].status = 200 /\ reqs[i].body = f.plain

Uploaded(r) == r.kind = "upload" /\ r.pc = "done" /\ r.status = 200

\* The file is an envelope of encryptMedia: it opens under the key of its
\* conversation.
IsMediaEnvelope(f) ==
    decryptBuffer(f.bytes, DerivedKey(f.conv, f.emails, f.salt), oracle).ok

\* C15: media at rest is encrypted, as claimed: every file a successful
\* upload left in the uploads directory, thumbnail included, is an
\* envelope of encryptMedia under the conversation's key.
C15_MediaAtRestEncrypted ==
    \A i \in Slots :
        Uploaded(reqs[i]) =>
            \A f \in files : f.id = reqs[i].id => IsMediaEnvelope(f)

\* deriveConversationKey has read the participants for the request and
\* gone on to the salt.
Deriving(r) == r.derived \/ r.pc \in {"saltFind", "saltCreate", "saltReread"}

\* The request was refused: conversation not found, or access denied.
Rejected(r) == r.pc = "done" /\ r.status \in {403, 404} /\ ~Deriving(r)

\* C17: rejected key requests change nothing, as claimed: no key is
\* derived (and so no salt row created) for a caller who is not among the
\* conversation's participants, and an upload that was refused has left
\* no file and no message.
C17_RejectedChangesNothing ==
    \A i \in Slots :
        LET r == reqs[i]
        IN  /\ Deriving(r) => r.user \in Range(r.emails)
            /\ (r.kind = "upload" /\ Rejected(r))
               => /\ \A f \in files : f.id # i
                  /\ \A m \in mediaMsgs : m.media # i

(***************************************************************************)
(* Properties of uploads over a failing database (SpecUpload).             *)
(***************************************************************************)
\* The request that wrote file f has ended.
WriterEnded(f) == reqs[f.id].pc = "done"

\* C16: partial state is never persisted, as claimed: once an upload has
\* ended, whether it succeeded or failed, every file it left in the
\* uploads directory has its message record.
C16_NoPartialState ==
    \A f \in files :
        WriterEnded(f) => \E m \in mediaMsgs : m.media = f.id

(***************************************************************************)
(* Properties of Protocol A as the application runs it (SpecChat).         *)
(***************************************************************************)
\* C11: one wrapped-key grant per participant, as claimed: for every
\* conversation and every one of its participants, table conversation_keys
\* holds exactly one row.
C11_OneGrantPerParticipant ==
    \A c \in DOMAIN members :
        \A u \in members[c] :
            Cardinality(KeyRows(conversationKeys, c, u)) = 1

\* The envelopes the hook's encryptMessage has returned.
Envelopes == {stored[i].envelope : i \in 1..Len(stored)}

\* C14: ciphertext-only messages, as claimed: the ciphertext field of
\* every text message the server stored is an envelope returned by
\* encryptMessage.
C14_CiphertextOnly ==
    \A m \in chatMsgs : m.type = "text" => m.ciphertext \in Envelopes

(***************************************************************************)
(* Properties of the browser and the user directory (SpecSession).         *)
(***************************************************************************)
\* C12: the identity keypair is created once per user, as claimed: once a
\* user's row holds a public key, no step gives the row another one.
C12_PublicKeyNeverReplaced ==
    [][\A u \in Users :
          directory[u].publicKey # <<>>
          => directory'[u].publicKey = directory[u].publicKey]_vars

\* Where a private key of the session may be found on the client.
PrivateKeyItems(storage) ==
    {e \in storage : e.key \in {"privateKey", "encrypted_private_key",
                                 "encrypted_private_key_fallback"}}

\* C13: storage discipline, as claimed: localStorage never holds an
\* unsealed private key, and when nobody is signed in (after logout or
\* tab close) neither storage holds private-key material.
C13_StorageDiscipline ==
    /\ \A e \in localStorage : e.value \notin {kp.privateKey : kp \in keypairs}
    /\ cryptoState.session = <<>>
       => PrivateKeyItems(localStorage \cup sessionStorage) = {}

\* The input errors of the sealing operations (crypto.ts:37).
InputErrors == {"Private key and password are required"}

\* C18: empty input is rejected at sealing, as claimed: encryptPrivateKey
\* and secureStorage.storePrivateKey, called with an empty private key or
\* an empty password, fail with an input error.
C18_EmptyInputRejected ==
    /\ (vaultOp.op = "encryptPrivateKey"
            /\ (vaultOp.input = <<>> \/ vaultOp.password = <<>>))
       => ~vaultOp.res.ok /\ vaultOp.res.err \in InputErrors
    /\ (storeOp.op = "storePrivateKey"
            /\ (storeOp.key = <<>> \/ storeOp.password = <<>>))
       => ~storeOp.res.ok /\ storeOp.res.err \in InputErrors

\* C30: secure-storage round trip, as claimed: right after
\* storePrivateKey(k, p) with a generated private key k and a non-empty
\* password p, in either implementation, the call has succeeded and
\* retrievePrivateKey(p) returns k.
C30_StorageRoundTrip ==
    [][(/\ storeOp' # storeOp
        /\ storeOp'.op = "storePrivateKey"
        /\ storeOp'.key \in {kp.privateKey : kp \in keypairs}
        /\ storeOp'.password # <<>>)
       => /\ storeOp'.res.ok
          /\ retrievePrivateKey(webCrypto', storeOp'.password, sessionStorage',
                                localStorage', oracle', hasPwhash')
             = JsString(storeOp'.key)]_vars

\* C21: fallback warning, as claimed: whenever the fallback storage is the
\* one createSecureStorage selected, the warning has been emitted, from the
\* selection on and so before any key is stored or read through it.
C21_FallbackWarned ==
    ~webCrypto => FallbackWarning \in warnings

\* C26: CSRF rejection is total, as claimed: a POST of a signed-in user to
\* the wrapped upload route whose x-csrf-token is missing, is not the stored
\* token (whatever its length), or whose stored token is absent or expired,
\* is answered 403 and its handler is not called.
C26_RejectionIsTotal ==
    [][(/\ guardOp' # guardOp
        /\ guardOp'.route = "upload"
        /\ guardOp'.user # <<>>
        /\ \/ guardOp'.token = <<>>
           \/ getStoredCSRFToken(csrfStore, guardOp'.user, now) = <<>>
           \/ guardOp'.token # getStoredCSRFToken(csrfStore, guardOp'.user, now))
       => guardOp'.status = 403 /\ ~guardOp'.invoked]_vars

\* C22: CSRF coverage, as claimed: a step in which a route changes the
\* server's state (a conversation is created, a message row is added, an
\* upload request is handed to its handler) is the step of a request that
\* passed withCSRFProtection with the user's stored, unexpired token.
C22_CsrfCoverage ==
    [][(\/ members' # members
        \/ chatMsgs' # chatMsgs
        \/ \E i \in Slots : reqs[i].pc = "idle" /\ reqs'[i].pc # "idle")
       => /\ guardOp' # guardOp
          /\ guardOp'.invoked
          /\ validateCSRFToken(guardOp'.token,
                               getStoredCSRFToken(csrfStore, guardOp'.user, now))
             = "true"]_vars

C24_MediaDisplayed ==
    xhr.sent
    => /\ xhr.slot # 0
       /\ \A f \in files :
             (f.part = "file" /\ f.conv = xhr.conv /\ f.uploader = xhr.user)
             => f.plain = xhr.file

\* C27: the message stream delivers exactly once, as claimed: on an open
\* stream no message is enqueued twice, messages are enqueued in creation
\* order, and no message is skipped: every message not yet enqueued is in
\* the result of a poll in progress or will be matched by the next query.
C27_ExactlyOnce ==
    ~closed
    => /\ \A i, j \in 1..Len(emitted) : i # j => emitted[i] # emitted[j]
       /\ \A i, j \in 1..Len(emitted) :
             i < j => \E a, b \in 1..Len(messageRows) :
                         a < b /\ messageRows[a] = emitted[i] /\ messageRows[b] = emitted[j]
       /\ \A k \in 1..Len(messageRows) :
             \/ \E i \in 1..Len(emitted) : emitted[i] = messageRows[k]
             \/ lastMessageId = 0 \/ messageRows[k] > lastMessageId
             \/ \E p \in PollIds :
                   \/ polls[p].pc = "query" /\ (polls[p].gt = 0 \/ messageRows[k] > polls[p].gt)
                   \/ polls[p].pc = "await"
                      /\ \E i \in 1..Len(polls[p].messages) :
                            polls[p].messages[i] = messageRows[k]

====
